---- MODULE Spec2Model ----
(***************************************************************************)
(* contextful: the context propagation core of context_logger.py.          *)
(*                                                                         *)
(* The ambient context is one module-level ContextVar whose value is a     *)
(* dict.  Every strand (the main flow, or an asyncio task) runs in its own *)
(* contextvars.Context; a task's Context is a copy of its creator's at     *)
(* creation time.  ContextVar.set returns a Token that remembers the       *)
(* previous value and the Context it was made in; ContextVar.reset(token)  *)
(* raises RuntimeError for a token already used, ValueError for a token    *)
(* made in another Context, and otherwise restores the previous value.     *)
(***************************************************************************)
EXTENDS Integers, Sequences, FiniteSets, TLC

\* ---------------------------------------------------------------- bounds
\* Scope handles (calls of logger.context) created in one behaviour.
MaxHandles == 3
\* Strands spawned besides the main strand (strand 0).
MaxChildren == 2
\* Distinct values id(frame) takes, so also frames alive at once.
MaxFrames == 2
\* Scopes opened through the logger of chain_context_logger.py.
MaxContexts == 2

\* ----------------------------------------------------------- dictionaries
\* A dict is a function from a finite set of keys to values.
Keys == {"x", "y"}
EmptyCtx == [k \in {} |-> 0]

\* Data a caller hands to logger.context(...).
ScopeData == {[k \in {"x"} |-> 2], [k \in {"y"} |-> 2], [k \in Keys |-> 3]}
NestedData == {[k \in {"x"} |-> 2], [k \in Keys |-> 3]}
\* Inline context of a log call: None, or a dict.
InlineData == {EmptyCtx, [k \in {"x"} |-> 4], [k \in {"y"} |-> 4]}
\* Inline context of a log call that uses the reserved name as a key.
ReservedInline == {EmptyCtx, [k \in {"context"} |-> 4]}
\* The `extra` keyword of a log call: absent, a plain attribute, a declared
\* top-level field name, or the reserved key "context".
ExtraData == {EmptyCtx, [k \in {"x"} |-> 5], [k \in {"context"} |-> 5]}

\* {**a, **b}: b wins on a shared key.
Merge(a, b) ==
    [k \in (DOMAIN a) \cup (DOMAIN b) |-> IF k \in DOMAIN b THEN b[k] ELSE a[k]]

\* dict minus the keys in ks (the effect of repeated dict.pop).
Without(d, ks) == [k \in (DOMAIN d) \ ks |-> d[k]]
\* dict restricted to the keys in ks.
Only(d, ks) == [k \in (DOMAIN d) \cap ks |-> d[k]]

\* ------------------------------------------------------------ log levels
NOTSET == 0
DEBUG == 10
INFO == 20
WARNING == 30
ERROR == 40
CRITICAL == 50
Levels == {INFO, ERROR}

\* ---------------------------------------------------------------- loggers
\* ContextLogger instances, by constructor arguments.
LoggerIds == {"plain", "based", "lifted", "strict"}
LoggerTable ==
    [lg \in LoggerIds |->
        CASE lg = "plain"  -> [base |-> EmptyCtx, tlf |-> {}, always |-> FALSE,
                               level |-> NOTSET]
          [] lg = "based"  -> [base |-> [k \in {"x"} |-> 1], tlf |-> {},
                               always |-> FALSE, level |-> NOTSET]
          [] lg = "lifted" -> [base |-> [k \in {"x"} |-> 1], tlf |-> {"x"},
                               always |-> FALSE, level |-> NOTSET]
          [] lg = "strict" -> [base |-> EmptyCtx, tlf |-> {"y"}, always |-> TRUE,
                               level |-> WARNING]]

\* ContextLogger.__init__: `self._base_context = (base_context or {}).copy()`,
\* a dict of its own; `given` is the mapping the caller passed and still holds
\* (the empty mapping when none was passed).
Constructed(lg) ==
    [base   |-> LoggerTable[lg].base,
     tlf    |-> LoggerTable[lg].tlf,
     always |-> LoggerTable[lg].always,
     level  |-> LoggerTable[lg].level,
     given  |-> LoggerTable[lg].base]

\* ---------------------------------------------------------------- strands
Main == 0
Strands == 0 .. MaxChildren
Children == 1 .. MaxChildren

\* The data each strand gives its scopes when strands run concurrently: the
\* main strand sets x, child c sets x and y to a value of its own.
TaskData(s) == IF s = Main THEN [k \in {"x"} |-> 1] ELSE [k \in Keys |-> s + 1]

VARIABLES
    loggers,   \* logger id -> its configuration (set at construction)
    status,    \* strand -> "unborn" | "running" | "done"
    cell,      \* strand -> value of _global_context in that strand's Context
    handles,   \* sequence of LogContext objects, in creation order
    blocks,    \* strand -> stack of entered `with` blocks (innermost last)
    exc,       \* strand -> an exception is propagating in the strand
    parent,    \* child strand -> the strand that spawned it
    inherited, \* strand -> ambient context of the spawner at spawn time
    spawnTop,  \* strand -> spawner's innermost open scope at spawn time (0: none)
    proper,    \* strand -> every close it issued so far was of its innermost scope
    lastCall,  \* the operation performed by the latest step, and its outcome
    emitted,   \* the record the latest step handed to the backend, if any
    store,     \* the logger of store_context_logger.py and its ContextStore
    chain,     \* the logger of chain_context_logger.py, its store, the call stack
    fmt,       \* a JsonFormatter of future/formatters.py and its latest record
    scan       \* the logger of stack_context_logger.py and the frames' locals

vars == <<loggers, status, cell, handles, blocks, exc, parent, inherited,
          spawnTop, proper, lastCall, emitted, store, chain, fmt, scan>>

\* The state of the loggers of the other modules, and that of ContextLogger.
variantVars == <<store, chain, fmt, scan>>
loggerVars == <<loggers, status, cell, handles, blocks, exc, parent, inherited,
                spawnTop, proper, emitted>>

\* ------------------------------------------------------- the ContextVar
\* _global_context = ContextVar('context_logger_store', default={})
Default == EmptyCtx
Unset == [set |-> FALSE, val |-> EmptyCtx]

\* _global_context.get() in the Context whose cell is c.
GetIn(c) == IF c.set THEN c.val ELSE Default
Get(s) == GetIn(cell[s])

\* _global_context.set(v) in strand s: only that strand's Context changes.
\* (Faulty variant: a process-wide variable.)
SetCellEverywhere(c, s, v) == [t \in DOMAIN c |-> [set |-> TRUE, val |-> v]]
SetCell(c, s, v) == [c EXCEPT ![s] = [set |-> TRUE, val |-> v]]

\* new_context = {**current_context, **context}
\* (Faulty variant: the new value is the scope's data alone.)
NewContextDataOnly(current, data) == data
NewContext(current, data) == Merge(current, data)

\* The LogContext built by lg.context(data) called in strand s; `logger` is
\* the instance whose _remove_context is the handle's cleanup hook.
HandleVia(s, lg, data) ==
    [data |-> data, ctx |-> s, old |-> cell[s], used |-> FALSE, logger |-> lg]
\* The same through the logger "plain".
Handle(s, data) == HandleVia(s, "plain", data)

\* Outcome of _global_context.reset(token) called in strand s.
ResetErr(s, h) ==
    IF handles[h].used THEN "RuntimeError"
    ELSE IF handles[h].ctx # s THEN "ValueError"
    ELSE "none"

\* The value a token restores: the one captured when it was made.
\* (Faulty variants: the variable is cleared; the variable is left as it is.)
RestoredEmpty(h) == Unset
RestoredCurrent(h) == cell[handles[h].ctx]
Restored(h) == handles[h].old

\* _global_context.reset(token) in strand s: only that strand's Context
\* changes.  (Faulty variant: a process-wide variable.)
ResetCellEverywhere(c, s, v) == [t \in DOMAIN c |-> v]
ResetCell(c, s, v) == [c EXCEPT ![s] = v]

\* Handles opened in strand s and not closed yet, oldest first.
RECURSIVE LayersUpTo(_, _)
LayersUpTo(s, n) ==
    IF n = 0 THEN <<>>
    ELSE IF handles[n].ctx = s /\ ~handles[n].used
         THEN Append(LayersUpTo(s, n - 1), n)
         ELSE LayersUpTo(s, n - 1)
OpenLayers(s) == LayersUpTo(s, Len(handles))
Opened(s) == Cardinality({h \in 1 .. Len(handles) : handles[h].ctx = s})

\* ------------------------------------------------------ ContextLogger._log
\* _global_context.get() in _log of logger lg: _global_context is a module
\* attribute, one variable for every instance.
\* (Faulty variant: every instance has a variable of its own, which holds
\* the scopes opened through that instance.)
RECURSIVE OwnScopes(_, _, _)
OwnScopes(lg, s, n) ==
    IF n = 0 THEN EmptyCtx
    ELSE IF handles[n].ctx = s /\ ~handles[n].used /\ handles[n].logger = lg
         THEN Merge(OwnScopes(lg, s, n - 1), handles[n].data)
         ELSE OwnScopes(lg, s, n - 1)
AmbientForOwn(lg, s) == OwnScopes(lg, s, Len(handles))
AmbientFor(lg, s) == Get(s)

\* isEnabledFor(level) of a logger that has no parent logger.
\* (Faulty variant: _log does not ask.)
EnabledAlways(lg, level) == TRUE
Enabled(lg, level) == level >= loggers[lg].level

\* finalized_context before top-level extraction.
\* (Faulty variants: the sources are merged in the opposite order;
\* exclude_context drops the ambient context but keeps the inline one;
\* exclude_context drops the base and the ambient context and keeps the
\* inline one.)
FinalizedInlineOnly(lg, ambient, inline, exclude) ==
    IF exclude THEN inline
    ELSE Merge(Merge(loggers[lg].base, ambient), inline)
FinalizedInlineFirst(lg, ambient, inline, exclude) ==
    IF exclude THEN loggers[lg].base
    ELSE Merge(Merge(inline, ambient), loggers[lg].base)
FinalizedKeepsInline(lg, ambient, inline, exclude) ==
    IF exclude THEN Merge(loggers[lg].base, inline)
    ELSE Merge(Merge(loggers[lg].base, ambient), inline)
Finalized(lg, ambient, inline, exclude) ==
    IF exclude THEN loggers[lg].base
    ELSE Merge(Merge(loggers[lg].base, ambient), inline)

\* 'context' in extra raises ValueError.
\* (Faulty variant: the key is not looked for.)
LogErrNever(extra) == "none"
LogErr(extra) == IF "context" \in DOMAIN extra THEN "ValueError" ELSE "none"

\* extra after `extra[field] = finalized_context.pop(field)` for each field.
LiftedExtra(lg, finalized, extra) ==
    Merge(extra, Only(finalized, loggers[lg].tlf))
\* finalized_context after the pops.
\* (Faulty variant: the fields are copied to `extra` but not removed.)
RemainingKeepsLifted(lg, finalized) == finalized
Remaining(lg, finalized) == Without(finalized, loggers[lg].tlf)

\* `if finalized_context or self._always_set_context`
\* (Faulty variant: always_set_context is ignored.)
AttachNonEmpty(lg, remaining) == remaining # EmptyCtx
Attach(lg, remaining) == remaining # EmptyCtx \/ loggers[lg].always

\* The caller's inline mapping after the call: _log unpacks it into a new
\* dict, `**(context or {})`, and pops from that dict only.
\* (Faulty variant: the loop pops from the caller's mapping.)
InlineAfterPopped(lg, inline) == Without(inline, loggers[lg].tlf)
InlineAfter(lg, inline) == inline

\* self._base_context after a call that reached the extraction loop: with
\* exclude_context the loop pops from `self._base_context.copy()`, otherwise
\* from a new dict.  (Faulty variant: the loop pops from the base itself.)
BaseAfterAliased(lg, exclude) ==
    IF exclude THEN Without(loggers[lg].base, loggers[lg].tlf)
    ELSE loggers[lg].base
BaseAfter(lg, exclude) == loggers[lg].base

\* self._base_context after the caller has changed the mapping it passed to
\* the constructor into `given`: the logger holds a copy, which the caller
\* cannot reach.  (Faulty variant: __init__ keeps `base_context or {}`
\* itself, the caller's object whenever that was not empty.)
BaseSharedWithCaller(lg, given) ==
    IF LoggerTable[lg].base # EmptyCtx THEN given ELSE loggers[lg].base
BaseAfterCallerWrite(lg, given) == loggers[lg].base

\* The dict the caller passed as `extra`, after the call: `extra` is that
\* very dict (kwargs.pop returns the object), and the loop and
\* `extra['context'] = finalized_context` assign into it.  The value under
\* "context", a dict, is written 0: only the key is ever looked at.
\* (Faulty variant: _log works on a copy of the caller's dict.)
ExtraAfterCopied(lg, finalized, extra, attached) == extra
ExtraAfter(lg, finalized, extra, attached) ==
    IF attached
    THEN Merge(LiftedExtra(lg, finalized, extra), [k \in {"context"} |-> 0])
    ELSE LiftedExtra(lg, finalized, extra)

NoRecord ==
    [some |-> FALSE, strand |-> Main, logger |-> "plain", level |-> NOTSET,
     inline |-> EmptyCtx, exclude |-> FALSE, extra |-> EmptyCtx,
     inlineAfter |-> EmptyCtx,
     hasContext |-> FALSE, context |-> EmptyCtx, top |-> EmptyCtx,
     ambient |-> EmptyCtx, layersAt |-> <<>>, properAt |-> TRUE, openedAt |-> 0]

\* The record handed to super()._log by a call that passes every check.
\* `top` and `context` are written into the dict the caller passed as
\* `extra`, which is the dict handed on.
Record(s, lg, level, inline, exclude, extra) ==
    LET fin == Finalized(lg, AmbientFor(lg, s), inline, exclude)
        rem == Remaining(lg, fin)
        att == Attach(lg, rem)
    IN  [some |-> TRUE, strand |-> s, logger |-> lg, level |-> level,
         inline |-> inline, exclude |-> exclude, extra |-> extra,
         inlineAfter |-> InlineAfter(lg, inline),
         hasContext |-> att,
         context |-> IF att THEN rem ELSE EmptyCtx,
         top |-> LiftedExtra(lg, fin, extra),
         ambient |-> Get(s), layersAt |-> OpenLayers(s),
         properAt |-> proper[s], openedAt |-> Opened(s)]

Call(s, op, h, err) ==
    [strand |-> s, op |-> op, h |-> h, err |-> err, raising |-> FALSE,
     propagated |-> FALSE, first |-> FALSE, before |-> EmptyCtx,
     enabled |-> FALSE, reserved |-> FALSE, method |-> "none",
     reused |-> FALSE, logger |-> "plain", level |-> NOTSET,
     extra |-> EmptyCtx, extraAfter |-> EmptyCtx]

\* A log call: was its level enabled, did its `extra` hold the key "context",
\* and what was the strand's ambient context when it was made.  A call that
\* returns or raises before the extraction loop leaves `extra` as it was.
LogCall(s, lg, level, extra, err) ==
    [Call(s, "log", 0, err) EXCEPT
        !.enabled = Enabled(lg, level),
        !.reserved = "context" \in DOMAIN extra,
        !.before = Get(s),
        !.logger = lg,
        !.level = level,
        !.extra = extra,
        !.extraAfter = extra]

\* The caller's `extra` after a call that reached the backend.
ExtraAfterLog(s, lg, inline, exclude, extra) ==
    LET fin == Finalized(lg, AmbientFor(lg, s), inline, exclude)
    IN  ExtraAfter(lg, fin, extra, Attach(lg, Remaining(lg, fin)))

\* ------------------------------------------- store_context_logger.py
\* What the latest step handed to the backend as the `context` attribute,
\* and the `extra` of the call.
NotLogged == [some |-> FALSE, context |-> EmptyCtx, extra |-> EmptyCtx]
Logged(context, extra) == [some |-> TRUE, context |-> context, extra |-> extra]

\* handles: the LogContext objects made by context(), by their data;
\* contextStore: ContextStore._context_store, a list of handles;
\* currentContext: ContextStore._current_context;
\* popped: what self._context_store.pop() took out in the latest step;
\* enteredBy: for each element of the list, the strand whose __enter__
\* appended it; poppedFrom: the strand that had appended what the latest
\* step took out.
NotPopped == 0
StoreInit ==
    [handles |-> <<>>, contextStore |-> <<>>, currentContext |-> EmptyCtx,
     popped |-> NotPopped, logged |-> NotLogged, enteredBy |-> <<>>,
     poppedFrom |-> <<>>]

\* updated_context = {**self._current_context, **log_context.data}
\* (Faulty variant: the cached value wins over the new layer.)
StoreAppendedCacheWins(current, data) == Merge(data, current)
StoreAppended(current, data) == Merge(current, data)

\* updated_context = {}; for context in list: updated_context.update(data)
RECURSIVE StoreFold(_, _)
StoreFold(hs, list) ==
    IF list = <<>> THEN EmptyCtx
    ELSE Merge(StoreFold(hs, SubSeq(list, 1, Len(list) - 1)), hs[list[Len(list)]])

\* self._context_store.pop(): the last element goes, whatever it is.
\* (Faulty variant: the handle being exited is the one taken out.)
RECURSIVE StoreWithout(_, _)
StoreWithout(list, h) ==
    IF list = <<>> THEN <<>>
    ELSE IF list[Len(list)] = h THEN SubSeq(list, 1, Len(list) - 1)
    ELSE Append(StoreWithout(SubSeq(list, 1, Len(list) - 1), h), list[Len(list)])
StorePopped(list, h) == SubSeq(list, 1, Len(list) - 1)
StoreTaken(list, h) == list[Len(list)]

\* The data of the elements of the list that strand s appended, in order.
RECURSIVE StoreOwn(_, _)
StoreOwn(s, n) ==
    IF n = 0 THEN <<>>
    ELSE IF store.enteredBy[n] = s
         THEN Append(StoreOwn(s, n - 1), store.contextStore[n])
         ELSE StoreOwn(s, n - 1)

\* self._context_store.current_context as a log call of strand s reads it:
\* the one attribute of the one ContextStore of the logger.
\* (Faulty variant: every strand has a store of its own.)
StoreCurrentOwn(s) == StoreFold(store.handles, StoreOwn(s, Len(store.contextStore)))
StoreCurrentFor(s) == store.currentContext

\* ------------------------------------------- future/formatters.py
\* Python values, written as Python writes them.  bool(v) is false for
\* None, '', 0, False and {}.
PyValues == {"None", "''", "0", "False", "{}", "'m'", "'t'", "{'x': 1}"}
Truthy(v) == v \notin {"None", "''", "0", "False", "{}"}

\* json.dumps(v, default=str) of such a value.
JsonDumps(v) ==
    CASE v = "None"     -> "null"
      [] v = "''"       -> "\"\""
      [] v = "0"        -> "0"
      [] v = "False"    -> "false"
      [] v = "{}"       -> "{}"
      [] v = "'m'"      -> "\"m\""
      [] v = "'t'"      -> "\"t\""
      [] v = "{'x': 1}" -> "{\"x\": 1}"

\* The attributes of LogRecord the model follows, and the key names a
\* mapping gives them; a key may be named like an attribute.
RecordFields == {"message", "context", "asctime"}
KeyNames == {"message", "ctx"}

\* log_record_field_mapping: a dict, so an ordered list of (field, key)
\* items with distinct fields; two fields may have the same key.
Item(field, key) == [field |-> field, key |-> key]
FieldMappings ==
    {<<>>}
    \cup {<<Item(f, k)>> : f \in RecordFields, k \in KeyNames}
    \cup UNION {{<<Item(f, k), Item(g, j)>> :
                     g \in RecordFields \ {f}, k \in KeyNames, j \in KeyNames} :
                 f \in RecordFields}

\* usesTime(): 'asctime' in self._log_record_field_mapping
UsesTime(mapping) == \E i \in DOMAIN mapping : mapping[i].field = "asctime"

\* record.__dict__ of a record made with message msg (no args) whose
\* attribute `context` is absent (<<>>) or has the value context[1].
RecordDict(msg, context) ==
    IF context = <<>> THEN [f \in {"msg"} |-> msg]
    ELSE [f \in {"msg", "context"} |-> IF f = "msg" THEN msg ELSE context[1]]

\* _prepare_record: record.message = record.getMessage(), and
\* record.asctime = self.formatTime(...) when the mapping has 'asctime'
\* (the record has no exc_info).
PrepareRecord(mapping, data) ==
    LET withMessage == Merge(data, [f \in {"message"} |-> data["msg"]])
    IN  IF UsesTime(mapping)
        THEN Merge(withMessage, [f \in {"asctime"} |-> "'t'"])
        ELSE withMessage

\* record_data.get(field)
RecordGet(data, field) == IF field \in DOMAIN data THEN data[field] ELSE "None"

\* The condition of the comprehension: record_data.get(field) or
\* self._keep_empty_values.  (Faulty variant: the test is `is not None`.)
KeptUnlessNone(v, keep) == v # "None" \/ keep
Kept(v, keep) == Truthy(v) \/ keep

\* The dict comprehension of format(): items in the mapping's order, a
\* later item with the same key replacing an earlier one.
RECURSIVE FormattedRecord(_, _, _)
FormattedRecord(mapping, keep, data) ==
    IF mapping = <<>> THEN EmptyCtx
    ELSE LET n == Len(mapping)
             before == FormattedRecord(SubSeq(mapping, 1, n - 1), keep, data)
             v == RecordGet(data, mapping[n].field)
         IN  IF Kept(v, keep)
             THEN Merge(before, [k \in {mapping[n].key} |-> v])
             ELSE before

\* json.dumps(formatted_record, default=str): the members of the object.
Stringified(formatted) == [k \in DOMAIN formatted |-> JsonDumps(formatted[k])]

\* No formatter yet; a formatter that has formatted nothing; and one after
\* format(record): record is record.__dict__ as format() left it.
NoFormatter ==
    [built |-> FALSE, mapping |-> <<>>, keep |-> FALSE, formatted |-> FALSE,
     record |-> EmptyCtx, output |-> EmptyCtx]
Formatter(mapping, keep) ==
    [built |-> TRUE, mapping |-> mapping, keep |-> keep, formatted |-> FALSE,
     record |-> EmptyCtx, output |-> EmptyCtx]

\* ------------------------------------------- stack_context_logger.py
\* An item of a frame's f_locals whose value is a LogContext: under the
\* key "id" (the handle's uuid, put there by __enter__) or under the name
\* of a local variable ("var") the function has bound the handle to.
Entry(name, h) == [name |-> name, h |-> h]

\* handles: the LogContext objects of the frames on the stack, by data, by
\* the position on the stack of the frame whose f_locals they hold, and by
\* whether the function keeps them in a local variable;
\* stack: for every function frame on the stack, outermost first, the
\* LogContext items of the dict its f_locals attribute returns, in the
\* dict's order.
ScanInit == [handles |-> <<>>, stack |-> <<<<>>>>, logged |-> NotLogged]

\* frame.f_locals of the frame at position i whose dict is `dict`: each
\* access copies the bound local variables into the dict the frame keeps;
\* a name that is new to the dict goes to its end, the others stay where
\* they are.  hs[1..n] are the handles looked at, in the order the
\* variables were bound.
RECURSIVE FLocals(_, _, _, _)
FLocals(dict, hs, i, n) ==
    IF n = 0 THEN dict
    ELSE LET before == FLocals(dict, hs, i, n - 1)
         IN  IF /\ hs[n].frame = i
                /\ hs[n].bound
                /\ \A j \in DOMAIN before : before[j] # Entry("var", n)
             THEN Append(before, Entry("var", n))
             ELSE before

\* _get_frame_log_context: next(value for value in f_locals.values() if
\* isinstance(value, LogContext)), or None: <<>> for None.
\* (Faulty variant: the last LogContext among the locals.)
GetFrameLogContextLast(dict) == IF dict = <<>> THEN <<>> ELSE <<dict[Len(dict)].h>>
GetFrameLogContext(dict) == IF dict = <<>> THEN <<>> ELSE <<dict[1].h>>

\* _get_context_data: the frames from the outermost to the current one,
\* context_data.update(log_context.data) for each that has a LogContext.
RECURSIVE GetContextData(_, _)
GetContextData(stack, hs) ==
    IF stack = <<>> THEN EmptyCtx
    ELSE LET n == Len(stack)
             outer == GetContextData(SubSeq(stack, 1, n - 1), hs)
             found == GetFrameLogContext(stack[n])
         IN  IF found = <<>> THEN outer ELSE Merge(outer, hs[found[1]].data)

\* ------------------------------------------- chain_context_logger.py
\* Values of id(frame).  Frame 1 is the module frame, which never returns.
FrameIds == 1 .. MaxFrames
ModuleFrame == 1
NoneFrame == 0

\* An id that is not a key of ContextStore._store, and a FrameContext:
\* contexts is _contexts, current is _current_context, father is
\* _father_frame_context.
NoFrame ==
    [registered |-> FALSE, contexts |-> <<>>, current |-> EmptyCtx,
     father |-> EmptyCtx]
FrameContext(father) ==
    [registered |-> TRUE, contexts |-> <<>>, current |-> EmptyCtx,
     father |-> father]

\* stack: the frames of the caller chain, the running one last;
\* handles: the LogContext objects made by context() (data, frame_id; closed
\* records that __exit__ has run on the handle);
\* registry: ContextStore._store; walk: where the frame walk of the latest
\* step stopped, if it made one.
ChainInit ==
    [stack |-> <<ModuleFrame>>, handles |-> <<>>,
     registry |-> [f \in FrameIds |-> NoFrame],
     walk |-> [made |-> FALSE, found |-> NoneFrame],
     logged |-> NotLogged]

NoWalk == [made |-> FALSE, found |-> NoneFrame]
Walked(found) == [made |-> TRUE, found |-> found]

\* FrameContext._merge_contexts
RECURSIVE MergeContexts(_, _)
MergeContexts(hs, contexts) ==
    IF contexts = <<>> THEN EmptyCtx
    ELSE Merge(MergeContexts(hs, SubSeq(contexts, 1, Len(contexts) - 1)),
               hs[contexts[Len(contexts)]].data)

\* FrameContext.current_context: {**father, **own}
\* (Faulty variant: the captured ancestor value wins on a shared key.)
CurrentContextFatherWins(fc) == Merge(fc.current, fc.father)
CurrentContext(fc) == Merge(fc.father, fc.current)

\* FrameContext.append_context
AppendContext(fc, hs, h) ==
    [fc EXCEPT !.contexts = Append(@, h),
               !.current = MergeContexts(hs, Append(fc.contexts, h))]

\* FrameContext.pop_context, then ContextStore.pop_context's
\* `if self._store[frame_id].empty: self._store.pop(frame_id)`.
\* (Faulty variant: the emptied frame stays in the registry.)
PopContextKeepsFrame(fc, hs) ==
    [fc EXCEPT !.contexts = SubSeq(@, 1, Len(@) - 1),
               !.current = MergeContexts(hs, SubSeq(fc.contexts, 1,
                                                    Len(fc.contexts) - 1))]
PopContext(fc, hs) ==
    IF Len(fc.contexts) = 1 THEN NoFrame
    ELSE [fc EXCEPT !.contexts = SubSeq(@, 1, Len(@) - 1),
                    !.current = MergeContexts(hs, SubSeq(fc.contexts, 1,
                                                         Len(fc.contexts) - 1))]

Registered(f) == chain.registry[f].registered
LiveFrames == {chain.stack[i] : i \in DOMAIN chain.stack}
RunningFrame == chain.stack[Len(chain.stack)]

\* `while parent_frame and id(parent_frame) not in self._store:
\*      parent_frame = parent_frame.f_back`, from position i of the stack down.
RECURSIVE NearestFrom(_)
NearestFrom(i) ==
    IF i = 0 THEN NoneFrame
    ELSE IF Registered(chain.stack[i]) THEN chain.stack[i]
    ELSE NearestFrom(i - 1)

\* Ids in the registry whose frame has returned.  id() is unique among
\* live objects only, so a frame made later can have such an id.
StaleIds == {f \in FrameIds : Registered(f) /\ f \notin LiveFrames}

\* Where the walk can stop.  It starts at inspect.currentframe(), the frame
\* of add_context or get_context itself, and passes the frames of the
\* logger's own methods before it reaches the caller: each of those has an
\* id of no live frame, possibly a stale key of the registry.
WalkFound == StaleIds \cup {NearestFrom(Len(chain.stack))}

\* ------------------------------------------------------------------ Init
Init ==
    /\ loggers = [lg \in LoggerIds |-> Constructed(lg)]
    /\ status = [s \in Strands |-> IF s = Main THEN "running" ELSE "unborn"]
    /\ cell = [s \in Strands |-> Unset]
    /\ handles = <<>>
    /\ blocks = [s \in Strands |-> <<>>]
    /\ exc = [s \in Strands |-> FALSE]
    /\ parent = [s \in Strands |-> Main]
    /\ inherited = [s \in Strands |-> EmptyCtx]
    /\ spawnTop = [s \in Strands |-> 0]
    /\ proper = [s \in Strands |-> TRUE]
    /\ lastCall = Call(Main, "init", 0, "none")
    /\ emitted = NoRecord
    /\ store = StoreInit
    /\ chain = ChainInit
    /\ fmt = NoFormatter
    /\ scan = ScanInit

Running(s) == status[s] = "running" /\ ~exc[s]

\* --------------------------------------------------------------- actions
\* self._log(level, msg, context, exclude_context=exclude, extra=extra) in
\* strand s, reached through the method m of the logger; `reused` tells
\* that `extra` is the dict object the caller passed to its previous call.
LogFrom(s, m, lg, level, inline, exclude, extra, reused) ==
    /\ Running(s)
    /\ IF ~Enabled(lg, level)
       THEN /\ lastCall' = [LogCall(s, lg, level, extra, "none") EXCEPT
                              !.method = m, !.reused = reused]
            /\ emitted' = NoRecord
            /\ loggers' = loggers
       ELSE IF LogErr(extra) # "none"
       THEN /\ lastCall' = [LogCall(s, lg, level, extra, LogErr(extra)) EXCEPT
                              !.method = m, !.reused = reused]
            /\ emitted' = NoRecord
            /\ loggers' = loggers
       ELSE /\ lastCall' = [LogCall(s, lg, level, extra, "none") EXCEPT
                              !.method = m, !.reused = reused,
                              !.extraAfter =
                                  ExtraAfterLog(s, lg, inline, exclude, extra)]
            /\ emitted' = Record(s, lg, level, inline, exclude, extra)
            /\ loggers' = [loggers EXCEPT ![lg].base = BaseAfter(lg, exclude)]
    /\ UNCHANGED <<status, cell, handles, blocks, exc, parent, inherited,
                   spawnTop, proper>>
    /\ UNCHANGED variantVars

\* The same with a dict of its own as `extra` (or none).
LogVia(s, m, lg, level, inline, exclude, extra) ==
    LogFrom(s, m, lg, level, inline, exclude, extra, FALSE)

\* logger.log(level, msg, context=inline, exclude_context=exclude,
\* extra=extra) in strand s.  A coroutine the strand awaits directly runs in
\* the strand's own task and Context, so its log calls are Log steps of
\* strand s too.
Log(s, lg, level, inline, exclude, extra) ==
    LogVia(s, "log", lg, level, inline, exclude, extra)

\* e = {...}; logger.log(.., extra=e); logger.log(.., extra=e): the second
\* call.
LogReusing(s, lg, level, inline, exclude) ==
    /\ lastCall.op = "log"
    /\ lastCall.strand = s
    /\ LogFrom(s, "log", lg, level, inline, exclude, lastCall.extraAfter, TRUE)

\* The severity methods and the level each hands to _log; `exception` also
\* passes exc_info, which _log hands on untouched.
\* (Faulty variant: every method logs at INFO.)
SeverityMethods == {"debug", "info", "warning", "error", "exception", "critical"}
MethodLevelInfo(m) == INFO
MethodLevel(m) ==
    CASE m = "debug" -> DEBUG
      [] m = "info" -> INFO
      [] m = "warning" -> WARNING
      [] m = "error" -> ERROR
      [] m = "exception" -> ERROR
      [] m = "critical" -> CRITICAL

\* logger.debug / info / warning / error / exception / critical
Severity(s, m, lg, inline, exclude, extra) ==
    LogVia(s, m, lg, MethodLevel(m), inline, exclude, extra)

\* logger.warn(*args, **kwargs) raises NotImplementedError.
\* (Faulty variant: it is the alias of `warning` that logging.Logger has.)
WarnErrNone == "none"
WarnErr == "NotImplementedError"

Warn(s, lg, inline, exclude, extra) ==
    IF WarnErr # "none"
    THEN /\ Running(s)
         /\ lastCall' = [Call(s, "warn", 0, WarnErr) EXCEPT
                           !.method = "warn", !.before = Get(s)]
         /\ emitted' = NoRecord
         /\ UNCHANGED <<loggers, status, cell, handles, blocks, exc, parent,
                        inherited, spawnTop, proper>>
         /\ UNCHANGED variantVars
    ELSE LogVia(s, "warn", lg, WARNING, inline, exclude, extra)

\* lg.context(data) in strand s: set the cell, build the handle.  Nothing
\* of the instance lg is read or written.
ContextCallVia(s, lg, data) ==
    /\ Len(handles) < MaxHandles
    /\ handles' = Append(handles, HandleVia(s, lg, data))
    /\ cell' = SetCell(cell, s, NewContext(Get(s), data))
ContextCall(s, data) == ContextCallVia(s, "plain", data)

\* h = lg.context(data), without entering the handle.
OpenVia(s, lg, data) ==
    /\ Running(s)
    /\ ContextCallVia(s, lg, data)
    /\ lastCall' = Call(s, "open", Len(handles) + 1, "none")
    /\ emitted' = NoRecord
    /\ UNCHANGED <<loggers, status, blocks, exc, parent, inherited, spawnTop,
                   proper>>
    /\ UNCHANGED variantVars
Open(s, data) == OpenVia(s, "plain", data)

\* `with lg.context(data):` -- context(data), then LogContext.__enter__.
WithEnterVia(s, lg, data) ==
    /\ Running(s)
    /\ ContextCallVia(s, lg, data)
    /\ blocks' = [blocks EXCEPT
                    ![s] = Append(@, [h |-> Len(handles) + 1, before |-> Get(s)])]
    /\ lastCall' = Call(s, "enter", Len(handles) + 1, "none")
    /\ emitted' = NoRecord
    /\ UNCHANGED <<loggers, status, exc, parent, inherited, spawnTop, proper>>
    /\ UNCHANGED variantVars
WithEnter(s, data) == WithEnterVia(s, "plain", data)

\* ContextLogger._remove_context(h) called in strand s.
RemoveContext(s, h) ==
    IF ResetErr(s, h) = "none"
    THEN /\ cell' = ResetCell(cell, s, Restored(h))
         /\ handles' = [handles EXCEPT ![h].used = TRUE]
    ELSE UNCHANGED <<cell, handles>>

\* Is h the innermost scope strand s has open?
IsTop(s, h) ==
    LET ls == OpenLayers(s) IN ls # <<>> /\ ls[Len(ls)] = h

\* LogContext.__exit__ returns super().__exit__(...), which is None: an
\* exception raised in the body is not suppressed.
\* (Faulty variant: __exit__ returns True.)
ExitSwallowsAlways == TRUE
ExitSwallows == FALSE

\* h.__exit__(None, None, None) called by hand in strand s, on any handle.
Close(s, h) ==
    /\ Running(s)
    /\ h \in 1 .. Len(handles)
    /\ RemoveContext(s, h)
    /\ proper' = [proper EXCEPT ![s] = @ /\ IsTop(s, h)]
    /\ lastCall' = [Call(s, "close", h, ResetErr(s, h)) EXCEPT
                      !.first = ~handles[h].used, !.before = Get(s)]
    /\ emitted' = NoRecord
    /\ UNCHANGED <<loggers, status, blocks, exc, parent, inherited, spawnTop>>
    /\ UNCHANGED variantVars

\* The body of the innermost `with` block of strand s ends normally:
\* __exit__(None, None, None).  An error raised by the cleanup hook leaves
\* __exit__ as an exception.
WithExit(s) ==
    /\ Running(s)
    /\ blocks[s] # <<>>
    /\ LET b == blocks[s][Len(blocks[s])]
           err == ResetErr(s, b.h)
       IN  /\ RemoveContext(s, b.h)
           /\ proper' = [proper EXCEPT ![s] = @ /\ IsTop(s, b.h)]
           /\ exc' = [exc EXCEPT ![s] = err # "none"]
           /\ lastCall' = [Call(s, "exit", b.h, err) EXCEPT
                             !.propagated = err # "none",
                             !.first = ~handles[b.h].used,
                             !.before = b.before]
    /\ blocks' = [blocks EXCEPT ![s] = SubSeq(@, 1, Len(@) - 1)]
    /\ emitted' = NoRecord
    /\ UNCHANGED <<loggers, status, parent, inherited, spawnTop>>
    /\ UNCHANGED variantVars

\* The body of a `with` block of strand s raises.
Raise(s) ==
    /\ Running(s)
    /\ blocks[s] # <<>>
    /\ exc' = [exc EXCEPT ![s] = TRUE]
    /\ lastCall' = Call(s, "raise", 0, "none")
    /\ emitted' = NoRecord
    /\ UNCHANGED <<loggers, status, cell, handles, blocks, parent, inherited,
                   spawnTop, proper>>
    /\ UNCHANGED variantVars

\* The exception in strand s leaves its innermost `with` block:
\* __exit__(exc_type, exc, tb) runs the cleanup hook and returns None.
Unwind(s) ==
    /\ status[s] = "running"
    /\ exc[s]
    /\ blocks[s] # <<>>
    /\ LET b == blocks[s][Len(blocks[s])]
           err == ResetErr(s, b.h)
           out == err # "none" \/ ~ExitSwallows
       IN  /\ RemoveContext(s, b.h)
           /\ proper' = [proper EXCEPT ![s] = @ /\ IsTop(s, b.h)]
           /\ exc' = [exc EXCEPT ![s] = out]
           /\ lastCall' = [Call(s, "exit", b.h, err) EXCEPT
                             !.raising = TRUE,
                             !.propagated = out,
                             !.first = ~handles[b.h].used,
                             !.before = b.before]
    /\ blocks' = [blocks EXCEPT ![s] = SubSeq(@, 1, Len(@) - 1)]
    /\ emitted' = NoRecord
    /\ UNCHANGED <<loggers, status, parent, inherited, spawnTop>>
    /\ UNCHANGED variantVars

\* The caller's `except` clause takes the exception.
Catch(s) ==
    /\ status[s] = "running"
    /\ exc[s]
    /\ exc' = [exc EXCEPT ![s] = FALSE]
    /\ lastCall' = Call(s, "catch", 0, "none")
    /\ emitted' = NoRecord
    /\ UNCHANGED <<loggers, status, cell, handles, blocks, parent, inherited,
                   spawnTop, proper>>
    /\ UNCHANGED variantVars

\* The Context a new task runs in: contextvars.copy_context() of its creator.
\* (Faulty variant: the task starts in an empty Context, as a thread does.)
FreshCell(p) == Unset
CopiedCell(p) == cell[p]

\* Strand p creates a task (asyncio.create_task / gather): the next child.
Spawn(p) ==
    /\ Running(p)
    /\ \E c \in Children :
         /\ status[c] = "unborn"
         /\ \A d \in Children : d < c => status[d] # "unborn"
         /\ status' = [status EXCEPT ![c] = "running"]
         /\ cell' = [cell EXCEPT ![c] = CopiedCell(p)]
         /\ parent' = [parent EXCEPT ![c] = p]
         /\ inherited' = [inherited EXCEPT ![c] = Get(p)]
         /\ spawnTop' = [spawnTop EXCEPT
                           ![c] = IF OpenLayers(p) = <<>> /\ spawnTop[p] = 0 THEN 0
                                  ELSE IF OpenLayers(p) = <<>> THEN spawnTop[p]
                                  ELSE OpenLayers(p)[Len(OpenLayers(p))]]
         /\ lastCall' = Call(p, "spawn", c, "none")
    /\ emitted' = NoRecord
    /\ UNCHANGED <<loggers, handles, blocks, exc, proper>>
    /\ UNCHANGED variantVars

\* The coroutine of child strand c returns (or fails): the task is over.
Finish(c) ==
    /\ c \in Children
    /\ status[c] = "running"
    /\ blocks[c] = <<>>
    /\ status' = [status EXCEPT ![c] = "done"]
    /\ lastCall' = Call(c, "finish", 0, "none")
    /\ emitted' = NoRecord
    /\ UNCHANGED <<loggers, cell, handles, blocks, exc, parent, inherited,
                   spawnTop, proper>>
    /\ UNCHANGED variantVars

\* ---------------------------------- actions of store_context_logger.py
\* h = logger.context(data): the handle is made, nothing is stored yet.
StoreContext(data) ==
    /\ Len(store.handles) < MaxHandles
    /\ store' = [store EXCEPT !.handles = Append(@, data), !.popped = NotPopped,
                              !.logged = NotLogged]
    /\ lastCall' = Call(Main, "store_context", Len(store.handles) + 1, "none")
    /\ UNCHANGED <<loggerVars, chain, fmt, scan>>

\* h.__enter__() in strand s: _create_log_context_hook,
\* ContextStore.append_context.
StoreEnterBy(s, h) ==
    /\ h \in 1 .. Len(store.handles)
    /\ Len(store.contextStore) < MaxHandles
    /\ store' = [store EXCEPT
                   !.contextStore = Append(@, h),
                   !.enteredBy = Append(@, s),
                   !.currentContext = StoreAppended(@, store.handles[h]),
                   !.popped = NotPopped,
                   !.poppedFrom = <<>>,
                   !.logged = NotLogged]
    /\ lastCall' = Call(s, "store_enter", h, "none")
    /\ UNCHANGED <<loggerVars, chain, fmt, scan>>

StoreEnter(h) == StoreEnterBy(Main, h)

\* h.__exit__(...) in strand s: _remove_log_context_hook,
\* ContextStore.pop_context.  list.pop() of an empty list raises IndexError.
StoreExitBy(s, h) ==
    /\ h \in 1 .. Len(store.handles)
    /\ IF store.contextStore = <<>>
       THEN /\ store' = [store EXCEPT !.popped = NotPopped, !.poppedFrom = <<>>,
                                      !.logged = NotLogged]
            /\ lastCall' = Call(s, "store_exit", h, "IndexError")
       ELSE /\ store' = [store EXCEPT
                           !.contextStore = StorePopped(@, h),
                           !.enteredBy = SubSeq(@, 1, Len(@) - 1),
                           !.currentContext =
                               StoreFold(store.handles,
                                         StorePopped(store.contextStore, h)),
                           !.popped = StoreTaken(store.contextStore, h),
                           !.poppedFrom = <<store.enteredBy[Len(store.enteredBy)]>>,
                           !.logged = NotLogged]
            /\ lastCall' = Call(s, "store_exit", h, "none")
    /\ UNCHANGED <<loggerVars, chain, fmt, scan>>

StoreExit(h) == StoreExitBy(Main, h)

\* logger.info(msg, extra=extra) in strand s: ContextLogger._log.
StoreLogBy(s, extra) ==
    /\ store' = [store EXCEPT
                   !.popped = NotPopped,
                   !.poppedFrom = <<>>,
                   !.logged = Logged(Merge(StoreCurrentFor(s), extra), extra)]
    /\ lastCall' = Call(s, "store_log", 0, "none")
    /\ UNCHANGED <<loggerVars, chain, fmt, scan>>

StoreLog(extra) == StoreLogBy(Main, extra)

\* ---------------------------------- actions of future/formatters.py
\* JsonFormatter(log_record_field_mapping, keep_empty_values)
FormatterInit(mapping, keep) ==
    /\ fmt' = Formatter(mapping, keep)
    /\ lastCall' = Call(Main, "formatter_init", 0, "none")
    /\ UNCHANGED <<loggerVars, store, chain, scan>>

\* formatter.format(record)
Format(msg, context) ==
    /\ fmt.built
    /\ LET data == PrepareRecord(fmt.mapping, RecordDict(msg, context))
       IN  fmt' = [fmt EXCEPT
                     !.formatted = TRUE,
                     !.record = data,
                     !.output = Stringified(FormattedRecord(fmt.mapping, fmt.keep, data))]
    /\ lastCall' = Call(Main, "format", 0, "none")
    /\ UNCHANGED <<loggerVars, store, chain, scan>>

\* ---------------------------------- actions of stack_context_logger.py
\* The running function calls another function.
ScanCall ==
    /\ Len(scan.stack) < MaxFrames
    /\ scan' = [scan EXCEPT !.stack = Append(@, <<>>), !.logged = NotLogged]
    /\ lastCall' = Call(Main, "scan_call", 0, "none")
    /\ UNCHANGED <<loggerVars, store, chain, fmt>>

\* The running function returns: its frame and the handles it made go.
ScanReturn ==
    LET n == Len(scan.stack) IN
    /\ n > 1
    /\ scan' = [scan EXCEPT
                  !.stack = SubSeq(@, 1, n - 1),
                  !.handles = SelectSeq(@, LAMBDA h : h.frame < n),
                  !.logged = NotLogged]
    /\ lastCall' = Call(Main, "scan_return", 0, "none")
    /\ UNCHANGED <<loggerVars, store, chain, fmt>>

\* logger.context(data) in the running function: __context reads
\* frames[2].f_locals, the caller's, and hands the dict to the LogContext;
\* `bound` tells that the function keeps the handle in a local variable
\* (`h = logger.context(data)`, or `with logger.context(data) as h`).
ScanContext(data, bound) ==
    LET n == Len(scan.stack) IN
    /\ Len(scan.handles) < MaxHandles
    /\ scan' = [scan EXCEPT
                  !.stack[n] = FLocals(@, scan.handles, n, Len(scan.handles)),
                  !.handles = Append(@, [data |-> data, frame |-> n, bound |-> bound]),
                  !.logged = NotLogged]
    /\ lastCall' = Call(Main, "scan_context", Len(scan.handles) + 1, "none")
    /\ UNCHANGED <<loggerVars, store, chain, fmt>>

\* h.__enter__() in the function that made h:
\* self._frame_locals[self.id] = self.
ScanEnter(h) ==
    LET n == Len(scan.stack) IN
    /\ h \in DOMAIN scan.handles
    /\ scan.handles[h].frame = n
    /\ scan' = [scan EXCEPT
                  !.stack[n] = IF \E j \in DOMAIN @ : @[j] = Entry("id", h)
                               THEN @ ELSE Append(@, Entry("id", h)),
                  !.logged = NotLogged]
    /\ lastCall' = Call(Main, "scan_enter", h, "none")
    /\ UNCHANGED <<loggerVars, store, chain, fmt>>

\* h.__exit__(...) in the function that made h:
\* self._frame_locals.pop(self.id, None).
ScanExit(h) ==
    LET n == Len(scan.stack) IN
    /\ h \in DOMAIN scan.handles
    /\ scan.handles[h].frame = n
    /\ scan' = [scan EXCEPT
                  !.stack[n] = SelectSeq(@, LAMBDA e : e # Entry("id", h)),
                  !.logged = NotLogged]
    /\ lastCall' = Call(Main, "scan_exit", h, "none")
    /\ UNCHANGED <<loggerVars, store, chain, fmt>>

\* logger.info(msg, extra=extra) in the running function: _log reads the
\* f_locals of every frame on the stack.
ScanLog(extra) ==
    LET read == [i \in DOMAIN scan.stack |->
                    FLocals(scan.stack[i], scan.handles, i, Len(scan.handles))]
    IN  /\ scan' = [scan EXCEPT
                      !.stack = read,
                      !.logged = Logged(Merge(GetContextData(read, scan.handles), extra),
                                        extra)]
        /\ lastCall' = Call(Main, "scan_log", 0, "none")
        /\ UNCHANGED <<loggerVars, store, chain, fmt>>

\* ---------------------------------- actions of chain_context_logger.py
\* The running function calls another: the new frame gets an id that no
\* live frame has.
ChainCall(f) ==
    /\ f \in FrameIds \ LiveFrames
    /\ chain' = [chain EXCEPT !.stack = Append(@, f), !.walk = NoWalk,
                              !.logged = NotLogged]
    /\ lastCall' = Call(Main, "chain_call", 0, "none")
    /\ UNCHANGED <<loggerVars, store, fmt, scan>>

\* The running function returns; nothing tells the store.
ChainReturn ==
    /\ Len(chain.stack) > 1
    /\ chain' = [chain EXCEPT !.stack = SubSeq(@, 1, Len(@) - 1),
                              !.walk = NoWalk, !.logged = NotLogged]
    /\ lastCall' = Call(Main, "chain_return", 0, "none")
    /\ UNCHANGED <<loggerVars, store, fmt, scan>>

\* h = logger.context(data) in the running function: ContextLogger.context,
\* ContextStore.add_context.
ChainContext(data) ==
    LET f == RunningFrame
        h == Len(chain.handles) + 1
        hs == Append(chain.handles, [data |-> data, frame_id |-> f, closed |-> FALSE])
    IN  /\ Len(chain.handles) < MaxContexts
        /\ IF Registered(f)
           THEN chain' = [chain EXCEPT
                            !.handles = hs,
                            !.registry[f] = AppendContext(@, hs, h),
                            !.walk = NoWalk,
                            !.logged = NotLogged]
           ELSE \E found \in WalkFound :
                  LET father == IF found = NoneFrame THEN EmptyCtx
                                ELSE CurrentContext(chain.registry[found])
                  IN  chain' = [chain EXCEPT
                                  !.handles = hs,
                                  !.registry[f] =
                                      AppendContext(FrameContext(father), hs, h),
                                  !.walk = Walked(found),
                                  !.logged = NotLogged]
        /\ lastCall' = Call(Main, "chain_context", h, "none")
        /\ UNCHANGED <<loggerVars, store, fmt, scan>>

\* h.__exit__(...): LogContext.__exit__, ContextLogger._remove_context,
\* ContextStore.pop_context(h.frame_id).  A FrameContext is always truthy,
\* so `if not self._store[frame_id]: return` never returns.
ChainExit(h) ==
    /\ h \in 1 .. Len(chain.handles)
    /\ LET f == chain.handles[h].frame_id
           hs == [chain.handles EXCEPT ![h].closed = TRUE]
       IN  IF ~Registered(f)
           THEN chain' = [chain EXCEPT !.handles = hs, !.walk = NoWalk,
                                       !.logged = NotLogged]
           ELSE chain' = [chain EXCEPT
                            !.handles = hs,
                            !.registry[f] = PopContext(@, hs),
                            !.walk = NoWalk,
                            !.logged = NotLogged]
    /\ lastCall' = Call(Main, "chain_exit", h, "none")
    /\ UNCHANGED <<loggerVars, store, fmt, scan>>

\* logger.info(msg, extra=extra) in the running function: ContextLogger._log,
\* ContextStore.get_context.  What the registered-frame branch reads is
\* overwritten by the walk.
ChainLog(extra) ==
    /\ IF \A f \in FrameIds : ~Registered(f)
       THEN chain' = [chain EXCEPT !.walk = NoWalk,
                                   !.logged = Logged(Merge(EmptyCtx, extra), extra)]
       ELSE \E found \in WalkFound :
              LET context == IF found = NoneFrame THEN EmptyCtx
                             ELSE CurrentContext(chain.registry[found])
              IN  chain' = [chain EXCEPT
                              !.walk = Walked(found),
                              !.logged = Logged(Merge(context, extra), extra)]
    /\ lastCall' = Call(Main, "chain_log", 0, "none")
    /\ UNCHANGED <<loggerVars, store, fmt, scan>>

\* The whole program: every strand, every operation, every input.
Next ==
    \/ \E s \in Strands, lg \in LoggerIds, level \in Levels, inline \in InlineData,
          exclude \in BOOLEAN, extra \in ExtraData :
            Log(s, lg, level, inline, exclude, extra)
    \/ \E s \in Strands, d \in ScopeData : Open(s, d)
    \/ \E s \in Strands, d \in ScopeData : WithEnter(s, d)
    \/ \E s \in Strands, h \in 1 .. MaxHandles : Close(s, h)
    \/ \E s \in Strands : WithExit(s)
    \/ \E s \in Strands : Raise(s)
    \/ \E s \in Strands : Unwind(s)
    \/ \E s \in Strands : Catch(s)
    \/ \E s \in Strands : Spawn(s)
    \/ \E s \in Strands : Finish(s)

Spec == Init /\ [][Next]_vars

\* TLC checks restrictions of Spec, each to the operations and inputs its
\* claims are about.

\* One strand: scopes opened and closed by `with` blocks, by hand and by
\* exceptions, in any order, with plain log calls between them.
NextNest ==
    \/ Log(Main, "plain", INFO, EmptyCtx, FALSE, EmptyCtx)
    \/ \E d \in NestedData : Open(Main, d)
    \/ \E d \in NestedData : WithEnter(Main, d)
    \/ \E h \in 1 .. MaxHandles : Close(Main, h)
    \/ WithExit(Main)
    \/ Raise(Main)
    \/ Unwind(Main)
    \/ Catch(Main)

SpecNest == Init /\ [][NextNest]_vars

\* Concurrent strands: the main strand spawns tasks, every strand enters and
\* leaves `with` blocks and logs, tasks finish; all steps interleave freely.
NextTasks ==
    \/ \E s \in Strands : Log(s, "plain", INFO, EmptyCtx, FALSE, EmptyCtx)
    \/ \E s \in Strands : WithEnter(s, TaskData(s))
    \/ \E s \in Strands : WithExit(s)
    \/ Spawn(Main)
    \/ \E c \in Children : Finish(c)

SpecTasks == Init /\ [][NextTasks]_vars

\* One strand with nested `with` blocks, and log calls of every shape
\* through every logger.
NextLog ==
    \/ \E lg \in LoggerIds, level \in Levels, inline \in InlineData,
          exclude \in BOOLEAN, extra \in ExtraData :
            Log(Main, lg, level, inline, exclude, extra)
    \/ \E d \in NestedData : WithEnter(Main, d)
    \/ WithExit(Main)

SpecLog == Init /\ [][NextLog]_vars

\* One strand with nested `with` blocks, and log calls, at enabled and at
\* disabled levels, whose inline context or `extra` uses the reserved name
\* or the name of a top-level field.
NextConflict ==
    \/ \E lg \in LoggerIds, level \in Levels, inline \in ReservedInline,
          extra \in ExtraData :
            Log(Main, lg, level, inline, FALSE, extra)
    \/ \E d \in NestedData : WithEnter(Main, d)
    \/ WithExit(Main)

SpecConflict == Init /\ [][NextConflict]_vars

\* One strand with nested `with` blocks, and log calls that all reach the
\* backend, one after the other: every logger, inline context and flag, at
\* a level every logger has enabled, with an `extra` free of "context".
NextCalls ==
    \/ \E lg \in LoggerIds, inline \in InlineData, exclude \in BOOLEAN,
          extra \in {e \in ExtraData : LogErr(e) = "none"} :
            Log(Main, lg, ERROR, inline, exclude, extra)
    \/ \E d \in NestedData : WithEnter(Main, d)
    \/ WithExit(Main)

SpecCalls == Init /\ [][NextCalls]_vars

\* One strand with nested `with` blocks, and calls of every log method of
\* two loggers, one of which has debug and info disabled.
NextMethods ==
    \/ \E m \in SeverityMethods, lg \in {"based", "strict"},
          inline \in {EmptyCtx, [k \in {"x"} |-> 4]}, exclude \in BOOLEAN :
            Severity(Main, m, lg, inline, exclude, EmptyCtx)
    \/ \E lg \in {"based", "strict"}, level \in Levels,
          inline \in {EmptyCtx, [k \in {"x"} |-> 4]}, exclude \in BOOLEAN :
            Log(Main, lg, level, inline, exclude, EmptyCtx)
    \/ \E lg \in {"based", "strict"}, inline \in {EmptyCtx, [k \in {"x"} |-> 4]},
          exclude \in BOOLEAN, extra \in ExtraData :
            Warn(Main, lg, inline, exclude, extra)
    \/ \E d \in NestedData : WithEnter(Main, d)
    \/ WithExit(Main)

SpecMethods == Init /\ [][NextMethods]_vars

\* One strand with nested `with` blocks, log calls with a dict of their own
\* as `extra`, and log calls that pass the dict of the call before them.
NextReuse ==
    \/ \E lg \in LoggerIds, level \in Levels, extra \in {EmptyCtx, [k \in {"x"} |-> 5]} :
            Log(Main, lg, level, EmptyCtx, FALSE, extra)
    \/ \E lg \in LoggerIds, level \in Levels :
            LogReusing(Main, lg, level, EmptyCtx, FALSE)
    \/ \E d \in NestedData : WithEnter(Main, d)
    \/ WithExit(Main)

SpecReuse == Init /\ [][NextReuse]_vars

\* The caller of the constructor goes on using the mapping it passed as
\* base_context: it binds key k to v, or deletes key k.
CallerWrites(lg, k, v) ==
    LET given == Merge(loggers[lg].given, [j \in {k} |-> v]) IN
    /\ loggers' = [loggers EXCEPT ![lg].given = given,
                                  ![lg].base = BaseAfterCallerWrite(lg, given)]
    /\ UNCHANGED <<status, cell, handles, blocks, exc, parent, inherited,
                   spawnTop, proper, lastCall, emitted, variantVars>>

CallerDeletes(lg, k) ==
    LET given == Without(loggers[lg].given, {k}) IN
    /\ k \in DOMAIN loggers[lg].given
    /\ loggers' = [loggers EXCEPT ![lg].given = given,
                                  ![lg].base = BaseAfterCallerWrite(lg, given)]
    /\ UNCHANGED <<status, cell, handles, blocks, exc, parent, inherited,
                   spawnTop, proper, lastCall, emitted, variantVars>>

\* Two loggers built from a caller's mapping, the caller changing that
\* mapping afterwards, `with` blocks, and log calls with and without
\* exclude_context (one of the loggers lifts a base key to the top level).
BasedLoggers == {"based", "lifted"}

NextBase ==
    \/ \E lg \in BasedLoggers, exclude \in BOOLEAN :
            Log(Main, lg, ERROR, EmptyCtx, exclude, EmptyCtx)
    \/ \E d \in NestedData : WithEnter(Main, d)
    \/ WithExit(Main)
    \/ \E lg \in BasedLoggers, k \in Keys : CallerWrites(lg, k, 7)
    \/ \E lg \in BasedLoggers, k \in Keys : CallerDeletes(lg, k)

SpecBase == Init /\ [][NextBase]_vars

\* One strand with nested `with` blocks opened through two of the logger
\* instances, and log calls through every instance.
NextShared ==
    \/ \E lg \in LoggerIds : Log(Main, lg, ERROR, EmptyCtx, FALSE, EmptyCtx)
    \/ \E lg \in {"based", "strict"}, d \in NestedData : WithEnterVia(Main, lg, d)
    \/ WithExit(Main)

SpecShared == Init /\ [][NextShared]_vars

\* The logger of store_context_logger.py: handles made, entered and exited
\* in any order and any number of times, and log calls.
NextStore ==
    \/ \E d \in NestedData : StoreContext(d)
    \/ \E h \in 1 .. MaxHandles : StoreEnter(h)
    \/ \E h \in 1 .. MaxHandles : StoreExit(h)
    \/ \E extra \in {EmptyCtx, [k \in {"x"} |-> 5]} : StoreLog(extra)

SpecStore == Init /\ [][NextStore]_vars

\* Formatters built with every mapping of at most two fields, each with and
\* without keep_empty_values, formatting records whose message is empty or
\* not and whose `context` is absent, empty in one of five ways, or not.
ContextValues == {<<>>} \cup {<<v>> : v \in PyValues \ {"'m'", "'t'"}}

NextFormat ==
    \/ \E mapping \in FieldMappings, keep \in BOOLEAN : FormatterInit(mapping, keep)
    \/ \E msg \in {"''", "'m'"}, context \in ContextValues : Format(msg, context)

SpecFormat == Init /\ [][NextFormat]_vars

\* The logger of stack_context_logger.py: functions call and return, make
\* handles, enter and exit them in any order, and log.  The data of a
\* scope goes by how many handles there are when it is made: x and y, then
\* x alone, then y alone, then x alone again.
NthData(n) ==
    IF n = 1 THEN [k \in Keys |-> 3]
    ELSE IF n = 3 THEN [k \in {"y"} |-> 4]
    ELSE [k \in {"x"} |-> 2]

NextScan ==
    \/ ScanCall
    \/ ScanReturn
    \/ \E bound \in BOOLEAN : ScanContext(NthData(Len(scan.handles) + 1), bound)
    \/ \E h \in 1 .. MaxHandles : ScanEnter(h)
    \/ \E h \in 1 .. MaxHandles : ScanExit(h)
    \/ \E extra \in {EmptyCtx, [k \in {"x"} |-> 5]} : ScanLog(extra)

SpecScan == Init /\ [][NextScan]_vars

\* The same logger used by two strands that run on one event loop: either
\* strand enters and exits any handle and logs, in any interleaving; no
\* method of the store suspends, so each is one step.  At most MaxContexts
\* handles are made.
StoreStrands == {Main, 1}

NextStoreStrands ==
    \/ \E d \in NestedData : Len(store.handles) < MaxContexts /\ StoreContext(d)
    \/ \E s \in StoreStrands, h \in 1 .. MaxHandles : StoreEnterBy(s, h)
    \/ \E s \in StoreStrands, h \in 1 .. MaxHandles : StoreExitBy(s, h)
    \/ \E s \in StoreStrands : StoreLogBy(s, EmptyCtx)

SpecStoreStrands == Init /\ [][NextStoreStrands]_vars

\* The logger of chain_context_logger.py: functions call and return, open
\* scopes, close any handle made so far, and log.
NextChain ==
    \/ \E f \in FrameIds : ChainCall(f)
    \/ ChainReturn
    \/ \E d \in NestedData : ChainContext(d)
    \/ \E h \in 1 .. MaxContexts : ChainExit(h)
    \/ \E extra \in {EmptyCtx, [k \in {"x"} |-> 5]} : ChainLog(extra)

SpecChain == Init /\ [][NextChain]_vars

\* The two loggers that keep their layers in a list: a run uses one of them.
NextStacks ==
    \/ chain = ChainInit /\ NextStore
    \/ store = StoreInit /\ NextChain

SpecStacks == Init /\ [][NextStacks]_vars

\* Concurrent strands that keep their handles in reach of each other: the
\* main strand opens the first scope or none, tasks open scopes by hand, and
\* every strand calls __exit__ on any handle not closed yet, its own or
\* another strand's, innermost or not.
NextCross ==
    \/ \E s \in Strands : (s = Main => handles = <<>>) /\ Open(s, TaskData(s))
    \/ \E s \in Strands, h \in 1 .. MaxHandles :
            (h <= Len(handles) /\ ~handles[h].used) /\ Close(s, h)
    \/ Spawn(Main)

SpecCross == Init /\ [][NextCross]_vars

\* =================================================================== claims
\* What the fold of the layers ls (handle ids, oldest first) over the
\* context `under` gives: every layer overlays the ones before it.
RECURSIVE Overlay(_, _)
Overlay(under, ls) ==
    IF ls = <<>> THEN under
    ELSE LET n == Len(ls)
             d == handles[ls[n]].data
             rest == Overlay(under, SubSeq(ls, 1, n - 1))
         IN  [k \in (DOMAIN rest) \cup (DOMAIN d) |->
                 IF k \in DOMAIN d THEN d[k] ELSE rest[k]]

\* The pair <<key, value>> is contributed by context c / by handle h.
Gives(c, k, v) == k \in DOMAIN c /\ c[k] = v
HandleGives(h, k, v) == Gives(handles[h].data, k, v)

\* Positions of ls whose layer defines key k.
Defining(ls, k) == {i \in 1 .. Len(ls) : k \in DOMAIN handles[ls[i]].data}
Last(S) == CHOOSE i \in S : \A j \in S : j <= i

Spawned(c) == c \in Children /\ status[c] # "unborn"

\* C1: a log call of a strand that has a sibling carries exactly the
\* spawner's context at spawn time overlaid by the strand's own open scopes:
\* every key and value it carries comes from one of these, none from a scope
\* of the sibling.
C1_SiblingIsolation ==
    emitted.some =>
        LET s == emitted.strand IN
        (Spawned(s) /\ \E t \in Children : t # s /\ Spawned(t) /\ parent[t] = parent[s]) =>
            /\ emitted.ambient = Overlay(inherited[s], emitted.layersAt)
            /\ \A k \in DOMAIN emitted.ambient :
                 \/ Gives(inherited[s], k, emitted.ambient[k])
                 \/ \E i \in 1 .. Len(emitted.layersAt) :
                      /\ handles[emitted.layersAt[i]].ctx = s
                      /\ HandleGives(emitted.layersAt[i], k, emitted.ambient[k])

\* Both siblings have a scope of their own open under a scope of the parent,
\* and one of them logs.
C1_Witness ==
    /\ emitted.some
    /\ Spawned(emitted.strand)
    /\ inherited[emitted.strand] # EmptyCtx
    /\ emitted.layersAt # <<>>
    /\ \E t \in Children :
         /\ t # emitted.strand
         /\ Spawned(t)
         /\ OpenLayers(t) # <<>>
         /\ Get(t) # emitted.ambient

\* C2: in one strand with properly nested opens and closes, a log call sees,
\* for every key, the value given by the innermost open scope that defines
\* the key, and no key that no open scope defines.
C2_NestedFold ==
    (emitted.some /\ emitted.properAt /\ emitted.strand = Main) =>
        \A k \in Keys :
            LET def == Defining(emitted.layersAt, k) IN
            IF def = {}
            THEN k \notin DOMAIN emitted.ambient
            ELSE Gives(emitted.ambient, k,
                       handles[emitted.layersAt[Last(def)]].data[k])

\* A log call after the inner scope, which shadowed a key of the outer one,
\* has been closed: the outer value is back.
C2_Witness ==
    /\ emitted.some
    /\ emitted.properAt
    /\ Len(emitted.layersAt) = 1
    /\ \E h \in 1 .. Len(handles) :
         /\ h > emitted.layersAt[1]
         /\ handles[h].used
         /\ \E k \in DOMAIN handles[h].data :
              /\ k \in DOMAIN handles[emitted.layersAt[1]].data
              /\ handles[h].data[k] # handles[emitted.layersAt[1]].data[k]

\* What a record shows for key k: the attribute k itself when k is a
\* top-level field, the entry k of the context attribute otherwise.
Shown(k) ==
    IF k \in loggers[emitted.logger].tlf
    THEN IF k \in DOMAIN emitted.top THEN <<emitted.top[k]>> ELSE <<>>
    ELSE IF emitted.hasContext /\ k \in DOMAIN emitted.context
         THEN <<emitted.context[k]>>
         ELSE <<>>

\* What the caller's own `extra` shows for key k when no source defines k.
FromExtra(k) ==
    IF k \in loggers[emitted.logger].tlf /\ k \in DOMAIN emitted.extra
    THEN <<emitted.extra[k]>>
    ELSE <<>>

\* C3: without exclude_context every key is logged with the value of the
\* inline context if it defines the key, else of the ambient context if that
\* defines it, else of the base context; nothing else is logged.
C3_Precedence ==
    (emitted.some /\ ~emitted.exclude) =>
        \A k \in Keys :
            Shown(k) =
                IF k \in DOMAIN emitted.inline THEN <<emitted.inline[k]>>
                ELSE IF k \in DOMAIN emitted.ambient THEN <<emitted.ambient[k]>>
                ELSE IF k \in DOMAIN loggers[emitted.logger].base
                     THEN <<loggers[emitted.logger].base[k]>>
                ELSE FromExtra(k)

\* Base, an open scope and the inline context define the same key with three
\* different values.
C3_Witness ==
    /\ emitted.some
    /\ ~emitted.exclude
    /\ emitted.layersAt # <<>>
    /\ \E k \in Keys :
         /\ k \in DOMAIN emitted.inline
         /\ k \in DOMAIN emitted.ambient
         /\ k \in DOMAIN loggers[emitted.logger].base
         /\ emitted.inline[k] # emitted.ambient[k]
         /\ emitted.ambient[k] # loggers[emitted.logger].base[k]
         /\ emitted.inline[k] # loggers[emitted.logger].base[k]

\* C4: once every scope of a strand has been closed in nested order, a log
\* call shows exactly base overlaid by inline, and with both empty the record
\* has a context attribute only under always_set_context (an empty one); a
\* scope opened after another one was closed shows its own data alone.
C4_NoLeakAfterClose ==
    (emitted.some /\ emitted.properAt /\ emitted.strand = Main) =>
        /\ (emitted.layersAt = <<>> /\ ~emitted.exclude) =>
             /\ \A k \in Keys :
                  Shown(k) =
                      IF k \in DOMAIN emitted.inline THEN <<emitted.inline[k]>>
                      ELSE IF k \in DOMAIN loggers[emitted.logger].base
                           THEN <<loggers[emitted.logger].base[k]>>
                      ELSE FromExtra(k)
             /\ (emitted.inline = EmptyCtx /\ loggers[emitted.logger].base = EmptyCtx) =>
                  /\ emitted.hasContext <=> loggers[emitted.logger].always
                  /\ emitted.context = EmptyCtx
        /\ Len(emitted.layersAt) = 1 =>
             emitted.ambient = handles[emitted.layersAt[1]].data

\* A plain log call after the strand's scopes were closed: no context
\* attribute on the record.
C4_Witness ==
    /\ emitted.some
    /\ emitted.properAt
    /\ emitted.layersAt = <<>>
    /\ emitted.openedAt > 0
    /\ emitted.logger = "plain"
    /\ emitted.inline = EmptyCtx
    /\ ~emitted.exclude
    /\ ~emitted.hasContext

\* C5: whatever the order of the closes, every key and value a log call
\* sees is given by a scope that is still open: a closed scope gives nothing.
C5_ClosedScopeSilent ==
    (emitted.some /\ emitted.strand = Main) =>
        \A k \in DOMAIN emitted.ambient :
            \E i \in 1 .. Len(emitted.layersAt) :
                HandleGives(emitted.layersAt[i], k, emitted.ambient[k])

\* C6: when an exception leaves a `with` block whose handle was not closed
\* by hand before, the exit removes the layer (the one removal of that
\* layer), the exception goes on to the caller, and the strand's ambient
\* context is what it was before the scope was opened.
C6_RaiseStillCloses ==
    (lastCall.op = "exit" /\ lastCall.raising /\ lastCall.first) =>
        /\ lastCall.err = "none"
        /\ handles[lastCall.h].used
        /\ \A i \in 1 .. Len(OpenLayers(lastCall.strand)) :
             OpenLayers(lastCall.strand)[i] # lastCall.h
        /\ lastCall.propagated
        /\ exc[lastCall.strand]
        /\ Get(lastCall.strand) = lastCall.before

\* An exception has just left an inner block, inside an outer scope whose
\* data is the ambient context again.
C6_Witness ==
    /\ lastCall.op = "exit"
    /\ lastCall.raising
    /\ lastCall.first
    /\ lastCall.before # EmptyCtx
    /\ Get(lastCall.strand) # Merge(lastCall.before, handles[lastCall.h].data)

\* C7: closing a handle that was closed before raises nothing and leaves
\* the strand's ambient context as the first close left it.
C7_SecondCloseSilent ==
    (lastCall.op = "close" /\ ~lastCall.first) =>
        /\ lastCall.err = "none"
        /\ Get(lastCall.strand) = lastCall.before

\* C8: a spawned strand that has opened no scope of its own has, and logs,
\* exactly the ambient context its spawner had at spawn time; a log call
\* inside an open scope of the logging strand itself (made by the strand or
\* by a coroutine it awaits) shows that scope's data.
C8_SpawnSnapshot ==
    /\ \A c \in Children :
         (status[c] = "running" /\ Opened(c) = 0) => Get(c) = inherited[c]
    /\ emitted.some =>
         /\ (Spawned(emitted.strand) /\ emitted.openedAt = 0) =>
              emitted.ambient = inherited[emitted.strand]
         /\ emitted.layersAt # <<>> =>
              LET top == emitted.layersAt[Len(emitted.layersAt)] IN
              \A k \in DOMAIN handles[top].data :
                  Gives(emitted.ambient, k, handles[top].data[k])

\* The first child logs under the parent's scope after the second child,
\* spawned under the same scope, has already finished.
C8_Witness ==
    /\ emitted.some
    /\ Spawned(emitted.strand)
    /\ emitted.openedAt = 0
    /\ inherited[emitted.strand] # EmptyCtx
    /\ \E t \in Children :
         /\ t > emitted.strand
         /\ status[t] = "done"
         /\ Opened(t) = 0
         /\ inherited[t] = inherited[emitted.strand]

\* C9: a step of a spawned strand leaves the current value of the strand
\* that spawned it unchanged.
C9_ChildNeverChangesParent ==
    [][\A c \in Children :
         (status[c] # "unborn" /\ lastCall'.strand = c) =>
             cell'[parent[c]] = cell[parent[c]]]_vars

\* The parent logs inside its own scope after a child that opened and closed
\* a scope of its own has finished.
C9_Witness ==
    /\ emitted.some
    /\ emitted.strand = Main
    /\ emitted.layersAt # <<>>
    /\ \E c \in Children :
         /\ status[c] = "done"
         /\ parent[c] = Main
         /\ Opened(c) > 0
         /\ OpenLayers(c) = <<>>

\* C10: a log call of a spawned strand shows the data of the scope that was
\* innermost in its spawner at spawn time, for every key the strand's own
\* open scopes do not define, and with no own scope open it shows exactly
\* the context inherited at spawn time -- also after the spawner closed
\* that scope.
C10_ChildKeepsSnapshot ==
    (emitted.some /\ Spawned(emitted.strand)) =>
        /\ spawnTop[emitted.strand] # 0 =>
             \A k \in DOMAIN handles[spawnTop[emitted.strand]].data :
                 Defining(emitted.layersAt, k) = {} =>
                     Gives(emitted.ambient, k,
                           handles[spawnTop[emitted.strand]].data[k])
        /\ emitted.layersAt = <<>> => emitted.ambient = inherited[emitted.strand]

\* The child logs after the parent closed the scope it was spawned under.
C10_Witness ==
    /\ emitted.some
    /\ Spawned(emitted.strand)
    /\ spawnTop[emitted.strand] # 0
    /\ handles[spawnTop[emitted.strand]].used
    /\ OpenLayers(parent[emitted.strand]) = <<>>
    /\ emitted.ambient # EmptyCtx

\* The value the merge of a log call's sources gives key k, if any: the base
\* value alone under exclude_context, otherwise the inline value before the
\* ambient one before the base one.
Won(k) ==
    LET base == loggers[emitted.logger].base IN
    IF ~emitted.exclude /\ k \in DOMAIN emitted.inline THEN <<emitted.inline[k]>>
    ELSE IF ~emitted.exclude /\ k \in DOMAIN emitted.ambient
         THEN <<emitted.ambient[k]>>
    ELSE IF k \in DOMAIN base THEN <<base[k]>>
    ELSE <<>>

\* C11: a log call with exclude_context shows exactly the base context,
\* whatever scopes are open and whatever inline context it passes: every base
\* key with its base value, no other key in the context attribute, and with
\* an empty base a context attribute only under always_set_context (empty).
C11_ExcludeGivesBase ==
    (emitted.some /\ emitted.exclude) =>
        LET base == loggers[emitted.logger].base IN
        /\ \A k \in Keys :
             Shown(k) = IF k \in DOMAIN base THEN <<base[k]>> ELSE FromExtra(k)
        /\ (DOMAIN emitted.context) \subseteq (DOMAIN base)
        /\ base = EmptyCtx =>
             /\ emitted.hasContext <=> loggers[emitted.logger].always
             /\ emitted.context = EmptyCtx

\* An excluding log call inside an open scope, whose inline context and
\* whose scope both give a base key another value.
C11_Witness ==
    /\ emitted.some
    /\ emitted.exclude
    /\ emitted.layersAt # <<>>
    /\ \E k \in DOMAIN loggers[emitted.logger].base :
         /\ k \in DOMAIN emitted.inline
         /\ k \in DOMAIN emitted.ambient
         /\ emitted.inline[k] # loggers[emitted.logger].base[k]
         /\ emitted.ambient[k] # loggers[emitted.logger].base[k]
         /\ Shown(k) = <<loggers[emitted.logger].base[k]>>

\* C12: every top-level field the merged context defines is absent from the
\* context attribute and is an attribute of the record with the value that
\* won the merge; every other key the merge defines is in the context
\* attribute with that value.
C12_TopLevelExtraction ==
    emitted.some =>
        \A k \in Keys :
            Won(k) # <<>> =>
                IF k \in loggers[emitted.logger].tlf
                THEN /\ k \notin DOMAIN emitted.context
                     /\ Gives(emitted.top, k, Won(k)[1])
                ELSE /\ emitted.hasContext
                     /\ Gives(emitted.context, k, Won(k)[1])

\* A record whose top-level field was given by an open scope and lifted,
\* while another key of that scope stayed in the context attribute.
C12_Witness ==
    /\ emitted.some
    /\ ~emitted.exclude
    /\ emitted.layersAt # <<>>
    /\ \E k \in loggers[emitted.logger].tlf, j \in Keys :
         /\ j \notin loggers[emitted.logger].tlf
         /\ k \notin DOMAIN emitted.inline
         /\ k \notin DOMAIN loggers[emitted.logger].base
         /\ Gives(emitted.top, k, emitted.ambient[k])
         /\ Gives(emitted.context, j, emitted.ambient[j])

\* C13: the record has the context attribute exactly when a key remains
\* after the top-level fields were taken out or always_set_context is set;
\* attached with nothing remaining, it is the empty mapping.
C13_ContextAttribute ==
    emitted.some =>
        LET rest == {k \in Keys : Won(k) # <<>> /\ k \notin loggers[emitted.logger].tlf}
        IN  /\ emitted.hasContext <=> (rest # {} \/ loggers[emitted.logger].always)
            /\ (emitted.hasContext /\ rest = {}) => emitted.context = EmptyCtx

\* Under always_set_context the only key of the merged context was lifted
\* to the top level: the context attribute is attached and empty.
C13_Witness ==
    /\ emitted.some
    /\ loggers[emitted.logger].always
    /\ \E k \in loggers[emitted.logger].tlf : Won(k) # <<>>
    /\ emitted.hasContext
    /\ emitted.context = EmptyCtx

\* C14: a log call at an enabled level whose `extra` has the key "context"
\* raises ValueError, hands nothing to the backend, and leaves the strand's
\* ambient context as it was when the call was made.
C14_ReservedExtraFails ==
    (lastCall.op = "log" /\ lastCall.enabled /\ lastCall.reserved) =>
        /\ lastCall.err = "ValueError"
        /\ ~emitted.some
        /\ Get(lastCall.strand) = lastCall.before

\* Such a call has just failed inside an open scope.
C14_Witness ==
    /\ lastCall.op = "log"
    /\ lastCall.enabled
    /\ lastCall.reserved
    /\ lastCall.err = "ValueError"
    /\ OpenLayers(lastCall.strand) # <<>>
    /\ Get(lastCall.strand) # EmptyCtx

\* C15: no record comes from a log call whose inline context has the key
\* "context" or whose `extra` has a key that is a top-level field (such a
\* call fails), and every key of the caller's `extra` is on the record with
\* the caller's value.
C15_CollisionFails ==
    emitted.some =>
        /\ "context" \notin DOMAIN emitted.inline
        /\ (DOMAIN emitted.extra) \cap loggers[emitted.logger].tlf = {}
        /\ \A k \in DOMAIN emitted.extra : Gives(emitted.top, k, emitted.extra[k])

\* C16 (as stated): a log call with exclude_context shows the inline context
\* and nothing of the ambient or of the base context.
C16_ExcludeLogsInlineOnly ==
    (emitted.some /\ emitted.exclude) =>
        \A k \in Keys :
            Shown(k) = IF k \in DOMAIN emitted.inline THEN <<emitted.inline[k]>>
                       ELSE FromExtra(k)

\* C16 (amended): a log call with exclude_context suppresses the ambient
\* and the inline context and logs the base context only: the context
\* attribute is the base without the top-level fields, and the record's
\* other attributes are the caller's `extra` overlaid by the base's
\* top-level fields.
C16_ExcludeLogsBaseOnly ==
    (emitted.some /\ emitted.exclude) =>
        LET base == loggers[emitted.logger].base
            tlf == loggers[emitted.logger].tlf
        IN  /\ emitted.context = Without(base, tlf)
            /\ emitted.top = Merge(emitted.extra, Only(base, tlf))
            /\ emitted.hasContext <=>
                 (Without(base, tlf) # EmptyCtx \/ loggers[emitted.logger].always)

\* An excluding call through a logger with a base context, inside an open
\* scope: its inline key, which the base does not define, is not shown.
C16_Witness ==
    /\ emitted.some
    /\ emitted.exclude
    /\ emitted.layersAt # <<>>
    /\ loggers[emitted.logger].base # EmptyCtx
    /\ \E k \in DOMAIN emitted.inline :
         /\ k \notin DOMAIN loggers[emitted.logger].base
         /\ Shown(k) = <<>>

\* C17: a log call with exclude_context leaves every strand's ambient
\* context and every logger's base context as they were, and a log call
\* without the flag that comes right after it shows the full merge: for
\* every key the inline value, else the ambient one, else the base one.
C17_ExcludeDoesNotPersist ==
    [][/\ (lastCall'.op = "log" /\ emitted'.some /\ emitted'.exclude) =>
            (cell' = cell /\ loggers' = loggers)
       /\ (emitted.some /\ emitted.exclude /\ emitted'.some /\ ~emitted'.exclude) =>
            \A k \in Keys :
                Shown(k)' = IF Won(k)' # <<>> THEN Won(k)' ELSE FromExtra(k)'
      ]_vars

\* An excluding call has just been made inside an open scope through a
\* logger with a base context; the ambient context is still the scope's.
C17_Witness ==
    /\ lastCall.op = "log"
    /\ emitted.some
    /\ emitted.exclude
    /\ loggers[emitted.logger].base # EmptyCtx
    /\ Get(emitted.strand) = lastCall.before
    /\ Get(emitted.strand) = Overlay(EmptyCtx, OpenLayers(emitted.strand))
    /\ \E k \in DOMAIN Get(emitted.strand) : Shown(k) # <<Get(emitted.strand)[k]>>

\* C18: a close, whichever handle it is called on -- not the innermost one
\* of the calling strand, or one opened by another strand -- leaves the
\* current context of every strand other than the calling one unchanged.
C18_CloseTouchesOnlyCaller ==
    [][lastCall'.op = "close" =>
          \A t \in Strands : t # lastCall'.strand => cell'[t] = cell[t]]_vars

\* A strand has just tried to close a scope that another strand has open,
\* after a task closed a scope of its own that was not its innermost (its
\* ambient context is no longer the fold of its open scopes).
C18_Witness ==
    /\ lastCall.op = "close"
    /\ handles[lastCall.h].ctx # lastCall.strand
    /\ ~handles[lastCall.h].used
    /\ lastCall.err = "ValueError"
    /\ Get(handles[lastCall.h].ctx) # EmptyCtx
    /\ \E t \in Children :
         /\ OpenLayers(t) # <<>>
         /\ Get(t) # Overlay(inherited[t], OpenLayers(t))

\* C19: a close removes the layer of its own handle and no other: whatever
\* closes came before, a log call sees every key of every scope of its
\* strand that is still open.
C19_OpenScopesStayVisible ==
    (emitted.some /\ emitted.strand = Main) =>
        \A i \in 1 .. Len(emitted.layersAt) :
            \A k \in DOMAIN handles[emitted.layersAt[i]].data :
                k \in DOMAIN emitted.ambient

C21_WarnAlwaysFails ==
    [][lastCall'.method = "warn" =>
          /\ lastCall'.op = "warn"
          /\ lastCall'.err = "NotImplementedError"
          /\ ~emitted'.some
          /\ cell' = cell
          /\ handles' = handles
          /\ loggers' = loggers]_vars

\* `warn` has just been called inside an open scope.
C21_Witness ==
    /\ lastCall.method = "warn"
    /\ lastCall.err = "NotImplementedError"
    /\ OpenLayers(lastCall.strand) # <<>>
    /\ lastCall.before # EmptyCtx
    /\ Get(lastCall.strand) = lastCall.before

\* The level python's logging gives each severity.
SeverityOf(m) ==
    CASE m \in {"debug"} -> DEBUG
      [] m \in {"info"} -> INFO
      [] m \in {"warning"} -> WARNING
      [] m \in {"error", "exception"} -> ERROR
      [] m \in {"critical"} -> CRITICAL

\* C22: a severity method called at a level its logger has enabled forwards
\* a record; every record a log method forwards has the level of the
\* method and shows, for every key, the value that wins the merge of base,
\* ambient and inline context, whatever the method.
C22_SeverityKeepsContext ==
    lastCall.op = "log" =>
        /\ (lastCall.enabled /\ ~lastCall.reserved) => emitted.some
        /\ emitted.some =>
             /\ lastCall.method \in SeverityMethods =>
                  emitted.level = SeverityOf(lastCall.method)
             /\ \A k \in Keys :
                  Shown(k) = IF Won(k) # <<>> THEN Won(k) ELSE FromExtra(k)

\* `critical` has just logged, inside an open scope, a context with a key
\* of the scope and a key of the inline context.
C22_Witness ==
    /\ lastCall.op = "log"
    /\ lastCall.method = "critical"
    /\ emitted.some
    /\ emitted.level = CRITICAL
    /\ emitted.layersAt # <<>>
    /\ emitted.inline # EmptyCtx
    /\ \E k \in DOMAIN emitted.ambient : Shown(k) = <<emitted.ambient[k]>>

\* C23: context(data) makes the strand's current value {**current, **data}
\* and keeps the previous value in the handle's token; a close that succeeds
\* makes the current value the one kept in the token, exactly; and when a
\* `with` block of a strand that closed its scopes in nested order ends,
\* the current value is the one from before the block.
C23_TokenRestoresPrevious ==
    [][LET s == lastCall'.strand
           h == lastCall'.h
       IN  /\ lastCall'.op \in {"open", "enter"} =>
                /\ handles'[h].old = cell[s]
                /\ GetIn(cell'[s]) = Merge(Get(s), handles'[h].data)
           /\ (lastCall'.op \in {"close", "exit"} /\ lastCall'.err = "none") =>
                cell'[s] = handles[h].old
           /\ (lastCall'.op = "exit" /\ lastCall'.err = "none" /\ proper'[s]) =>
                GetIn(cell'[s]) = lastCall'.before
      ]_vars

\* A `with` block whose data overwrote a key of the enclosing scope has just
\* ended: the enclosing scope's value is the current one again.
C23_Witness ==
    /\ lastCall.op = "exit"
    /\ lastCall.err = "none"
    /\ proper[lastCall.strand]
    /\ Get(lastCall.strand) = lastCall.before
    /\ \E k \in DOMAIN handles[lastCall.h].data :
         /\ k \in DOMAIN lastCall.before
         /\ lastCall.before[k] # handles[lastCall.h].data[k]

\* ------------------------------------------- claims on the stack-backed loggers
\* The fold of a sequence of dicts, key by key: the last dict that has the
\* key gives its value.
FoldOf(ds) ==
    [k \in UNION {DOMAIN ds[i] : i \in DOMAIN ds} |->
        ds[Last({i \in DOMAIN ds : k \in DOMAIN ds[i]})][k]]

\* The data of the layers of a FrameContext, in push order.
LayersOf(fc, hs) == [i \in DOMAIN fc.contexts |-> hs[fc.contexts[i]].data]

\* A frame's merged value, key by key: its own layers first, else the
\* captured ancestor value.
MergedValue(fc, hs) ==
    LET own == FoldOf(LayersOf(fc, hs))
    IN  [k \in (DOMAIN own) \cup (DOMAIN fc.father) |->
            IF k \in DOMAIN own THEN own[k] ELSE fc.father[k]]

\* The callers of the running frame that are registered, by stack position.
RegisteredAncestors == {i \in 1 .. Len(chain.stack) - 1 : Registered(chain.stack[i])}
AncestorValue ==
    IF RegisteredAncestors = {} THEN EmptyCtx
    ELSE MergedValue(chain.registry[chain.stack[Last(RegisteredAncestors)]],
                     chain.handles)

\* C24: logger.context(data) in a frame that is registered pushes the data
\* as one more layer and the frame's own value is the fold of all its
\* layers in push order; in a frame that is not registered it makes an
\* entry seeded with the merged value of the nearest registered caller
\* ({} when no caller is registered) and pushes the data.
C24_AddSeedsFromNearestAncestor ==
    [][lastCall'.op = "chain_context" =>
         LET f == RunningFrame
             h == lastCall'.h
             was == chain.registry[f]
             now == chain'.registry[f]
         IN  /\ chain'.handles[h].data \in NestedData
             /\ now.registered
             /\ now.current = FoldOf(LayersOf(now, chain'.handles))
             /\ was.registered =>
                   /\ now.contexts = Append(was.contexts, h)
                   /\ now.father = was.father
             /\ ~was.registered =>
                   /\ now.contexts = <<h>>
                   /\ now.father = AncestorValue
      ]_vars

\* The handles made in the frame with id f.
HandlesOf(f) == {i \in DOMAIN chain.handles : chain.handles[i].frame_id = f}

\* C25: closing a handle pops the most recent layer of the handle's frame
\* and recomputes the frame's value, and takes the frame out of the
\* registry when that was its only layer; so every frame in the registry
\* has at least one layer, and a frame all of whose scopes have been
\* closed is not in the registry.
C25_RemovePopsAndDeregisters ==
    [][/\ lastCall'.op = "chain_exit" =>
            LET f == chain.handles[lastCall'.h].frame_id
                was == chain.registry[f]
                now == chain'.registry[f]
                n == Len(was.contexts)
            IN  /\ (was.registered /\ n > 1) =>
                      /\ now.registered
                      /\ now.contexts = SubSeq(was.contexts, 1, n - 1)
                      /\ now.current = FoldOf(LayersOf(now, chain'.handles))
                      /\ now.father = was.father
                /\ (was.registered /\ n = 1) => ~now.registered
                /\ ~was.registered => ~now.registered
                /\ \A g \in FrameIds \ {f} : chain'.registry[g] = chain.registry[g]
       /\ \A f \in FrameIds :
            /\ Registered(f)' => Len(chain'.registry[f].contexts) >= 1
            /\ (HandlesOf(f)' # {} /\ \A i \in HandlesOf(f)' : chain'.handles[i].closed)
                  => ~Registered(f)'
      ]_vars

\* Two scopes of one frame have both been closed, the first one last, and
\* the frame is gone from the registry.
C25_Witness ==
    /\ lastCall.op = "chain_exit"
    /\ lastCall.h = 1
    /\ Len(chain.handles) = 2
    /\ chain.handles[1].frame_id = chain.handles[2].frame_id
    /\ chain.handles[1].closed /\ chain.handles[2].closed
    /\ ~Registered(chain.handles[1].frame_id)

\* C26: a log call carries the merged value of the running frame when that
\* frame is registered, else that of its nearest registered caller, else
\* {} (no frame of the chain registered, or the registry empty), each
\* overlaid by the call's extra; it never fails.
C26_ResolveNearestRegistered ==
    lastCall.op = "chain_log" =>
        /\ lastCall.err = "none"
        /\ chain.logged.some
        /\ chain.logged.context =
              Merge(IF Registered(RunningFrame)
                    THEN MergedValue(chain.registry[RunningFrame], chain.handles)
                    ELSE AncestorValue,
                    chain.logged.extra)

\* C27: what a registered frame resolves to is the caller value captured
\* when the frame was registered, overlaid by the fold of the frame's own
\* layers (an own layer wins on a shared key); the captured value stays as
\* it is while the frame stays registered, so opening or closing a scope
\* of another frame does not change what this frame resolves to.
C27_FatherCapturedOnce ==
    [][/\ \A f \in FrameIds :
            (Registered(f) /\ Registered(f)') =>
                /\ chain'.registry[f].father = chain.registry[f].father
                /\ (/\ lastCall'.op \in {"chain_context", "chain_exit"}
                    /\ chain'.handles[lastCall'.h].frame_id # f)
                      => MergedValue(chain'.registry[f], chain'.handles)
                           = MergedValue(chain.registry[f], chain.handles)
       /\ (lastCall'.op = "chain_log" /\ chain'.walk.made
              /\ chain'.walk.found # NoneFrame) =>
            chain'.logged.context =
                Merge(MergedValue(chain.registry[chain'.walk.found], chain.handles),
                      chain'.logged.extra)
       /\ (lastCall'.op = "chain_context" /\ chain'.walk.made
              /\ chain'.walk.found # NoneFrame) =>
            chain'.registry[RunningFrame].father =
                MergedValue(chain.registry[chain'.walk.found], chain.handles)
      ]_vars

\* A log call of a registered frame whose captured caller value is no
\* longer what its callers would give, and one of whose own layers
\* overrides a key of the captured value.
C27_Witness ==
    /\ lastCall.op = "chain_log"
    /\ chain.walk.found = RunningFrame
    /\ LET fc == chain.registry[RunningFrame]
       IN  /\ fc.registered
           /\ fc.father # EmptyCtx
           /\ fc.father # AncestorValue
           /\ \E k \in DOMAIN fc.father :
                 /\ k \in DOMAIN fc.current
                 /\ fc.current[k] # fc.father[k]
                 /\ chain.logged.context[k] = fc.current[k]

\* C28: in the list-backed store and in a frame's list alike, closing a
\* handle takes out the layer pushed last, whichever handle is closed: the
\* layers left are those that were there, in order, without the last.
C28_ExitPopsLastLayer ==
    [][/\ (lastCall'.op = "store_exit" /\ lastCall'.err = "none") =>
            LET list == store.contextStore
            IN  /\ store'.contextStore = SubSeq(list, 1, Len(list) - 1)
                /\ store'.popped = list[Len(list)]
       /\ lastCall'.op = "chain_exit" =>
            LET f == chain.handles[lastCall'.h].frame_id
                list == chain.registry[f].contexts
            IN  Registered(f) =>
                  chain'.registry[f].contexts = SubSeq(list, 1, Len(list) - 1)
      ]_vars

\* A close of a handle that took out the layer of another handle: in the
\* store, or in a frame where two scopes were opened and the first closed.
C28_Witness ==
    \/ /\ lastCall.op = "store_exit"
       /\ store.popped # NotPopped
       /\ store.popped # lastCall.h
    \/ /\ lastCall.op = "chain_exit"
       /\ lastCall.h = 1
       /\ Len(chain.handles) = 2
       /\ chain.handles[2].frame_id = chain.handles[1].frame_id
       /\ ~chain.handles[2].closed
       /\ chain.registry[chain.handles[1].frame_id].contexts = <<1>>

\* The data of the layers in the store's list, in push order.
StoreLayers == [i \in DOMAIN store.contextStore |-> store.handles[store.contextStore[i]]]

\* C29: after every enter and exit the store's cached context is the fold,
\* in push order with later layers winning, of the data of the layers in
\* its list, and the data of every handle is what it was.
C29_CacheEqualsFold ==
    [][/\ store'.currentContext = FoldOf(StoreLayers')
       /\ \A h \in DOMAIN store.handles : store'.handles[h] = store.handles[h]
      ]_vars

\* An exit has left two layers in the list, the later of which overrides a
\* key of the earlier.
C29_Witness ==
    /\ lastCall.op = "store_exit"
    /\ store.popped # NotPopped
    /\ Len(store.contextStore) = 2
    /\ \E k \in DOMAIN StoreLayers[1] :
          /\ k \in DOMAIN StoreLayers[2]
          /\ StoreLayers[1][k] # StoreLayers[2][k]
          /\ store.currentContext[k] = StoreLayers[2][k]

\* C30: no close raises, in the list-backed store and in the frame
\* registry alike: not a close when the store's list is empty, not a
\* close for a frame id that is not registered, not a close of an outer
\* scope before an inner one.
C30_NoCloseRaises ==
    lastCall.op \in {"store_exit", "chain_exit"} => lastCall.err = "none"

\* ------------------------------------------- claims C31 .. C38
\* The value the scopes in ls (handle ids, oldest first) give key k: that of
\* the scope opened last among those that have the key.
GivenBy(ls, k) == handles[ls[Last(Defining(ls, k))]].data[k]

\* C31: a scope is active from the call of context(data) on, whether or not
\* its handle is entered: every log call of the strand made while the
\* handle has not been exited carries the scope's keys, each with the value
\* of the most recently opened scope not exited that has the key.
C31_ActiveFromContextCall ==
    (emitted.some /\ emitted.strand = Main /\ ~emitted.exclude) =>
        \A i \in 1 .. Len(emitted.layersAt) :
            \A k \in DOMAIN handles[emitted.layersAt[i]].data :
                /\ emitted.hasContext
                /\ Gives(emitted.context, k, GivenBy(emitted.layersAt, k))

\* C32: a log call through any logger instance carries the scopes its
\* strand has open, whichever instance opened them, merged over the base
\* context of the instance that logs; the top-level fields and the
\* always-set flag that apply are those of the instance that logs.
C32_CellSharedAcrossInstances ==
    (emitted.some /\ emitted.strand = Main /\ ~emitted.exclude) =>
        LET own == LoggerTable[emitted.logger]
            full == Overlay(own.base, emitted.layersAt)
            rest == [k \in (DOMAIN full) \ own.tlf |-> full[k]]
        IN  /\ emitted.ambient = Overlay(EmptyCtx, emitted.layersAt)
            /\ emitted.top = [k \in (DOMAIN full) \cap own.tlf |-> full[k]]
            /\ emitted.hasContext <=> (rest # EmptyCtx \/ own.always)
            /\ emitted.hasContext => emitted.context = rest

\* A log call through the logger "lifted" while a scope opened through the
\* logger "strict" is open: the scope's x is lifted (a field of "lifted"),
\* its y stays in the context (a field of "strict" only).
C32_Witness ==
    /\ emitted.some
    /\ emitted.logger = "lifted"
    /\ \E i \in 1 .. Len(emitted.layersAt) :
          LET h == handles[emitted.layersAt[i]]
          IN  /\ h.logger = "strict"
              /\ "y" \in DOMAIN h.data
              /\ Gives(emitted.context, "y", h.data["y"])
              /\ Gives(emitted.top, "x", h.data["x"])

\* C33: a log call that reaches the backend leaves in the caller's `extra`
\* dict the top-level fields it lifted and, when it attached a context, the
\* key "context"; a following call at an enabled level that passes the same
\* dict after a call that attached a context fails with ValueError and logs
\* nothing, although the caller put no "context" in the dict.
C33_ExtraIsWrittenInPlace ==
    [][lastCall'.op = "log" =>
         /\ emitted'.some =>
               /\ [k \in (DOMAIN lastCall'.extraAfter) \ {"context"} |->
                      lastCall'.extraAfter[k]] = emitted'.top
               /\ \A k \in DOMAIN emitted'.extra : k \in DOMAIN lastCall'.extraAfter
               /\ "context" \in DOMAIN lastCall'.extraAfter <=> emitted'.hasContext
         /\ ( /\ lastCall'.reused
              /\ lastCall'.enabled
              /\ emitted.some
              /\ emitted.hasContext ) =>
               /\ lastCall'.err = "ValueError"
               /\ ~emitted'.some
               /\ lastCall'.extraAfter = lastCall.extraAfter
      ]_vars

\* A call that passed the dict of the call before it was rejected.
C33_Witness ==
    /\ lastCall.op = "log"
    /\ lastCall.reused
    /\ lastCall.enabled
    /\ lastCall.err = "ValueError"
    /\ "context" \in DOMAIN lastCall.extraAfter

\* C34: a log call at a level below the logger's threshold hands nothing to
\* the backend and raises nothing, also when its `extra` has the key
\* "context", and leaves `extra`, every base context and every ambient
\* context as they were.
C34_DisabledCallDoesNothing ==
    [][(lastCall'.op = "log"
          /\ lastCall'.level < LoggerTable[lastCall'.logger].level) =>
         /\ ~emitted'.some
         /\ lastCall'.err = "none"
         /\ lastCall'.extraAfter = lastCall'.extra
         /\ loggers' = loggers
         /\ cell' = cell
      ]_vars

\* A call below the threshold whose `extra` holds "context", made while a
\* scope is open.
C34_Witness ==
    /\ lastCall.op = "log"
    /\ lastCall.level < LoggerTable[lastCall.logger].level
    /\ "context" \in DOMAIN lastCall.extra
    /\ lastCall.err = "none"
    /\ ~emitted.some
    /\ Get(Main) # EmptyCtx

\* C35: every logger's base context stays the mapping it was constructed
\* with, whatever the caller does to the mapping it passed and whatever
\* scopes are opened or closed and log calls made; and a record shows every
\* key that only the base defines with the value given at construction.
C35_BaseFixedAtConstruction ==
    /\ \A lg \in LoggerIds : loggers[lg].base = LoggerTable[lg].base
    /\ emitted.some =>
         \A k \in DOMAIN LoggerTable[emitted.logger].base :
            ( k \notin DOMAIN emitted.inline
              /\ (emitted.exclude \/ k \notin DOMAIN emitted.ambient) ) =>
                Shown(k) = <<LoggerTable[emitted.logger].base[k]>>

\* The caller has rebound or deleted a base key in the mapping it passed,
\* and a later record -- made after a call with exclude_context through a
\* logger that lifts that key -- still shows the value of construction.
C35_Witness ==
    /\ emitted.some
    /\ lastCall.op = "log"
    /\ \E k \in DOMAIN LoggerTable[emitted.logger].base :
         /\ k \in loggers[emitted.logger].tlf
         /\ ( k \notin DOMAIN loggers[emitted.logger].given
              \/ loggers[emitted.logger].given[k] # LoggerTable[emitted.logger].base[k] )
         /\ Shown(k) = <<LoggerTable[emitted.logger].base[k]>>
    /\ emitted.exclude
    /\ handles # <<>>

\* C36: the list-backed logger has one list of layers for all strands: a
\* log call of a strand carries every key of every layer in the list,
\* whichever strand entered it, with the value of the last layer that has
\* the key; and an exit in a strand takes out the layer entered last,
\* whichever strand entered it.
C36_StoreSharedByStrands ==
    [][/\ lastCall'.op = "store_log" =>
            /\ store'.logged.some
            /\ store'.logged.context = FoldOf(StoreLayers)
       /\ (lastCall'.op = "store_exit" /\ lastCall'.err = "none") =>
            LET n == Len(store.contextStore)
            IN  /\ store'.contextStore = SubSeq(store.contextStore, 1, n - 1)
                /\ store'.enteredBy = SubSeq(store.enteredBy, 1, n - 1)
                /\ store'.poppedFrom = <<store.enteredBy[n]>>
      ]_vars

\* A strand has logged while the only layers in the list are ones the
\* other strand entered, and the record has their keys; or a strand's exit
\* has taken out a layer that the other strand entered, leaving its own in
\* the list.
C36_Witness ==
    \/ /\ lastCall.op = "store_log"
       /\ store.contextStore # <<>>
       /\ \A i \in DOMAIN store.enteredBy : store.enteredBy[i] # lastCall.strand
       /\ store.logged.context = FoldOf(StoreLayers)
       /\ store.logged.context # EmptyCtx
    \/ /\ lastCall.op = "store_exit"
       /\ lastCall.err = "none"
       /\ store.poppedFrom # <<lastCall.strand>>
       /\ store.contextStore # <<>>
       /\ \A i \in DOMAIN store.enteredBy : store.enteredBy[i] = lastCall.strand

\* The mapping gives no two fields the same key.
DistinctKeys(mapping) ==
    \A i, j \in DOMAIN mapping : mapping[i].key = mapping[j].key => i = j

\* The output has the field of item i: its key is there, with the JSON of
\* the record's value for the field.
Appears(i) ==
    /\ fmt.mapping[i].key \in DOMAIN fmt.output
    /\ fmt.output[fmt.mapping[i].key] = JsonDumps(RecordGet(fmt.record, fmt.mapping[i].field))

\* Every member of the output is a mapped field under its key.
OnlyMapped == \A k \in DOMAIN fmt.output : \E i \in DOMAIN fmt.mapping :
                  fmt.mapping[i].key = k /\ Appears(i)

\* C37 as stated: a mapped field is in the output under its key if and
\* only if its value is truthy or keep_empty_values is set, and nothing
\* else is in the output.
C37_FieldAppearsIffKept ==
    fmt.formatted =>
        /\ \A i \in DOMAIN fmt.mapping :
              Appears(i) <=>
                ( Truthy(RecordGet(fmt.record, fmt.mapping[i].field)) \/ fmt.keep )
        /\ OnlyMapped

\* C37, amended: the same, for a mapping that gives no two fields the
\* same key; when two fields have the same key the output has that key
\* once, with the value of the last of them that is kept.
C37_FieldAppearsIffKeptDistinctKeys ==
    fmt.formatted =>
        /\ DistinctKeys(fmt.mapping) =>
              \A i \in DOMAIN fmt.mapping :
                  Appears(i) <=>
                    ( Truthy(RecordGet(fmt.record, fmt.mapping[i].field)) \/ fmt.keep )
        /\ OnlyMapped

\* Without keep_empty_values, a record whose `context` is there but empty
\* was formatted under a mapping of `context` and `message` to two keys:
\* the message is in the output, the context is not.
C37_Witness ==
    /\ fmt.formatted
    /\ ~fmt.keep
    /\ Len(fmt.mapping) = 2
    /\ DistinctKeys(fmt.mapping)
    /\ \E i, j \in DOMAIN fmt.mapping :
         /\ fmt.mapping[i].field = "context"
         /\ "context" \in DOMAIN fmt.record
         /\ fmt.record["context"] \in {"0", "False", "{}"}
         /\ fmt.mapping[i].key \notin DOMAIN fmt.output
         /\ fmt.mapping[j].field = "message"
         /\ Appears(j)

\* What each frame on the stack gives a log call, outermost first: the
\* data of the first LogContext among its locals, nothing when it has none.
FirstOfFrames ==
    [i \in DOMAIN scan.stack |->
        IF scan.stack[i] = <<>> THEN EmptyCtx
        ELSE scan.handles[scan.stack[i][1].h].data]

\* C38: a record of the locals-scan logger has, for every key, the value
\* given by the innermost frame among those whose first LogContext has
\* the key (the call's own `extra` going over it): one handle per frame,
\* the first among the frame's locals, and no other handle of the frame.
C38_FirstHandlePerFrameInnerWins ==
    scan.logged.some =>
        scan.logged.context = Merge(FoldOf(FirstOfFrames), scan.logged.extra)

\* A log call made in a function with two scopes entered, called from a
\* function with one: the record has the outer function's value for a key
\* that the inner function's second scope sets otherwise, and the inner
\* function's first scope's value for a key the outer function sets
\* otherwise.
C38_Witness ==
    /\ scan.logged.some
    /\ scan.logged.extra = EmptyCtx
    /\ Len(scan.stack) = 2
    /\ scan.stack[1] # <<>>
    /\ Len(scan.stack[2]) >= 2
    /\ scan.stack[2][1].name = "id"
    /\ scan.stack[2][2].name = "id"
    /\ LET outer == scan.handles[scan.stack[1][1].h].data
           first == scan.handles[scan.stack[2][1].h].data
           second == scan.handles[scan.stack[2][2].h].data
       IN  /\ \E k \in DOMAIN outer :
                /\ k \in DOMAIN first
                /\ outer[k] # first[k]
                /\ scan.logged.context[k] = first[k]
           /\ \E k \in DOMAIN outer :
                /\ k \in DOMAIN second
                /\ k \notin DOMAIN first
                /\ outer[k] # second[k]
                /\ scan.logged.context[k] = outer[k]
====
